---------------------------- MODULE Spec2Model ----------------------------
(***************************************************************************)
(* A model of the search core of the human-chess-engine repository:       *)
(* the bitboard Board (src/utils/board.cpp), its FEN reader and writer,   *)
(* the move generator, make_move / is_legal, the static evaluation the search  *)
(* calls at its leaves, and the iterative-deepening alpha-beta search with *)
(* its transposition, killer and history tables (src/search/search.cpp).   *)
(*                                                                         *)
(* A bitboard (uint64_t) is modelled as the set of the squares whose bit   *)
(* is set; squares are numbered 0..63 as in board.hpp (a1 = 0, h8 = 63).   *)
(* A std::string is a sequence of one-character strings.                   *)
(***************************************************************************)
EXTENDS Integers, Sequences, FiniteSets, TLC

VARIABLES
    fen,              \* the position description handed to the program
    go,               \* the parameters search() is called with: time budget, depth
    board,            \* the Board object: search()'s root, or the one under test
    fenOut,           \* what get_fen returned for board
    pc,               \* where the driver of the current scenario stands
    ply,              \* number of make_move calls applied to board
    lastMove,         \* the move of the last make_move / is_legal call (0: none yet)
    prevBoard,        \* the position the last make_move was applied to
    legalOut,         \* what the last is_legal call returned
    rngPos,           \* draws taken so far from the static mt19937 of generate_candidates
    cands,            \* the last result of a direct generate_candidates call
    stop_search,      \* search.cpp:24
    timedOut,         \* get_elapsed_ms() has passed max_time_ms (elapsed only grows)
    max_time_ms,      \* search.cpp:33
    search_depth,     \* search.cpp:25
    nodes_searched,   \* search.cpp:27
    transposition_table, \* search.cpp:47, the slots written since initialize()
    killer_moves,     \* search.cpp:50, the rows written since initialize()
    history_scores,   \* search.cpp:53, the entries written since initialize()
    indet,            \* the value the uninitialized tt_move of alpha_beta reads as
    stack,            \* the frames of alpha_beta / quiescence_search in progress
    ret,              \* the value the frame popped last returned
    legal_moves,      \* search(): the root's generated moves
    depth,            \* search(): the iterative-deepening loop variable
    result,           \* search(): the SearchResult being built
    completed,        \* result as it stood after the last iteration no poll interrupted
    stopSeen,         \* should_stop() has answered true during this call
    interrupted,      \* the iteration whose alpha_beta saw should_stop() first (0: none)
    writesAfterStop,  \* table writes made after stopSeen in this call
    returned,         \* the SearchResults returned so far, in call order
    stored,           \* the hashes the table scenario has passed to tt_store
    lastStore,        \* the arguments of its last tt_store call and the hash its slot held
    probeOut,         \* its last tt_probe call: arguments and what it answered
    updates,          \* the update_history calls the history scenario has made
    attackSq,         \* the square the attack scenario asks about
    attackOut         \* the bitboard knight_attacks or king_attacks answered

fenVars == <<fen, fenOut>>
moveVars == <<ply, lastMove, prevBoard, legalOut, cands>>
tableVars == <<transposition_table, killer_moves, history_scores>>
probeVars == <<stored, lastStore, probeOut, updates, attackSq, attackOut>>
callVars == <<go, stop_search, timedOut, max_time_ms, search_depth, nodes_searched,
              indet, stack, ret, legal_moves, depth, result, completed, stopSeen,
              interrupted, writesAfterStop, returned>>
vars == <<fen, go, board, fenOut, pc, ply, lastMove, prevBoard, legalOut, rngPos, cands,
          stop_search, timedOut, max_time_ms, search_depth, nodes_searched,
          transposition_table, killer_moves, history_scores, indet, stack, ret,
          legal_moves, depth, result, completed, stopSeen, interrupted,
          writesAfterStop, returned, stored, lastStore, probeOut,
          updates, attackSq, attackOut>>

-----------------------------------------------------------------------------
(* board.hpp: piece types, colours, bitboard helpers *)

NO_PIECE == 0
PAWN == 1
KNIGHT == 2
BISHOP == 3
ROOK == 4
QUEEN == 5
KING == 6
WHITE == 0
BLACK == 1

Squares == 0..63

rank_of(square) == square \div 8

file_of(square) == square % 8

test(bb, square) == square \in bb

PAWN_MOVE(color) == IF color = WHITE THEN 8 ELSE -8

PAWN_ATTACK(color) == IF color = WHITE THEN <<7, 9>> ELSE <<-7, -9>>

Abs(x) == IF x < 0 THEN -x ELSE x

Min(S) == CHOOSE x \in S : \A y \in S : x <= y

\* the squares of a bitboard in the order repeated pop_lsb yields them
pop_lsb_order(bb) ==
    [i \in 1..Cardinality(bb) |->
        CHOOSE idx \in bb : Cardinality({sq \in bb : sq < idx}) = i - 1] \o <<>>

RECURSIVE Concat(_)
Concat(ss) == IF ss = <<>> THEN <<>> ELSE Head(ss) \o Concat(Tail(ss))

SeqToSet(s) == {s[i] : i \in 1..Len(s)}

\* the 64 masks of knight_attacks, each as its set of squares
KnightTable ==
  << {10,17}, {11,16,18}, {8,12,17,19}, {9,13,18,20},
     {10,14,19,21}, {11,15,20,22}, {12,21,23}, {9,22},
     {2,18,25}, {3,19,24,26}, {0,4,16,20,25,27}, {1,5,17,21,26,28},
     {2,6,18,22,27,29}, {3,7,19,23,28,30}, {4,20,29,31}, {13,30},
     {1,10,26,33}, {0,2,11,27,32,34}, {1,3,8,12,24,28,33,35}, {2,4,9,13,25,29,34,36},
     {3,5,10,14,26,30,35,37}, {4,6,11,15,27,31,36,38}, {5,7,12,28,37,39}, {6,17,38},
     {9,18,34,41}, {8,10,19,35,40,42}, {9,11,16,20,32,36,41,43}, {10,12,17,21,33,37,42,44},
     {11,13,18,22,34,38,43,45}, {12,14,19,23,35,39,44,46}, {13,15,20,36,45,47}, {14,25,46},
     {17,26,42,49}, {16,18,27,43,48,50}, {17,19,24,28,40,44,49,51}, {18,20,25,29,41,45,50,52},
     {19,21,26,30,42,46,51,53}, {20,22,27,31,43,47,52,54}, {21,23,28,44,53,55}, {22,33,54},
     {25,34,50,57}, {24,26,35,51,56,58}, {25,27,32,36,48,52,57,59}, {26,28,33,37,49,53,58,60},
     {27,29,34,38,50,54,59,61}, {28,30,35,39,51,55,60,62}, {29,31,36,52,61,63}, {30,41,62},
     {33,42,58}, {32,34,43,59}, {33,35,40,44,56,60}, {34,36,41,45,57,61},
     {35,37,42,46,58,62}, {36,38,43,47,59,63}, {37,39,44,60}, {30,41},
     {33,50}, {32,34,51}, {33,35,48,52}, {34,36,49,53},
     {35,37,50,54}, {36,38,51,55}, {37,39,52}, {38} >>

\* the 64 masks of king_attacks, each as its set of squares
KingTable ==
  << {1,8,9}, {0,1,2,8,10}, {1,2,3,9,11}, {2,3,4,10,12},
     {3,4,5,11,13}, {4,5,6,12,14}, {5,6,7,13,15}, {2,3,4,5,14},
     {0,1,9,16,17}, {0,1,2,8,10,16,17,18}, {1,2,3,9,10,11,17,18,19}, {2,3,4,10,11,12,18,19,20},
     {3,4,5,11,12,13,19,20,21}, {4,5,6,12,13,14,20,21,22}, {5,6,7,13,14,15,21,22,23}, {6,7,14,15,22,23},
     {8,9,17,24,25}, {8,9,10,16,18,24,25,26}, {9,10,11,17,18,19,25,26,27}, {10,11,12,18,19,20,26,27,28},
     {11,12,13,19,20,21,27,28,29}, {12,13,14,20,21,22,28,29,30}, {13,14,15,21,22,23,29,30,31}, {14,15,22,23,30,31},
     {16,17,25,32,33}, {16,17,18,24,26,32,33,34}, {17,18,19,25,26,27,33,34,35}, {18,19,20,26,27,28,34,35,36},
     {19,20,21,27,28,29,35,36,37}, {20,21,22,28,29,30,36,37,38}, {21,22,23,29,30,31,37,38,39}, {22,23,30,31,38,39},
     {24,25,33,40,41}, {24,25,26,32,34,40,41,42}, {25,26,27,33,34,35,41,42,43}, {26,27,28,34,35,36,42,43,44},
     {27,28,29,35,36,37,43,44,45}, {28,29,30,36,37,38,44,45,46}, {29,30,31,37,38,39,45,46,47}, {30,31,38,39,46,47},
     {32,33,41,48,49}, {32,33,34,40,42,48,49,50}, {33,34,35,41,42,43,49,50,51}, {34,35,36,42,43,44,50,51,52},
     {35,36,37,43,44,45,51,52,53}, {36,37,38,44,45,46,52,53,54}, {37,38,39,45,46,47,53,54,55}, {38,39,46,47,54,55},
     {40,41,49,56,57}, {40,41,42,48,50,56,57,58}, {41,42,43,49,50,51,57,58,59}, {42,43,44,50,51,52,58,59,60},
     {43,44,45,51,52,53,59,60,61}, {44,45,46,52,53,54,60,61,62}, {45,46,47,53,54,55,61,62,63}, {46,47,54,55,62,63},
     {48,49,57}, {48,49,50,56,58}, {49,50,51,57,58,59}, {50,51,52,58,59,60},
     {51,52,53,59,60,61}, {52,53,54,60,61,62}, {53,54,55,61,62,63}, {54,55,62,63} >>

-----------------------------------------------------------------------------
(* board.cpp: Bitboards *)

knight_attacks(square) == KnightTable[square + 1]

king_attacks(square) == KingTable[square + 1]

\* one ray of a sliding piece: the squares from (file, rank) in direction
\* (df, dr), up to and including the first blocker
RECURSIVE Ray(_, _, _, _, _)
Ray(file, rank, df, dr, blockers) ==
    LET f == file + df
        r == rank + dr
        sq == f + r * 8
    IN  IF f < 0 \/ f > 7 \/ r < 0 \/ r > 7 THEN {}
        ELSE IF sq \in blockers THEN {sq}
        ELSE {sq} \cup Ray(f, r, df, dr, blockers)

\* a bishop that slides on through the blockers to the edge of the board
BishopThroughBlockers(square, blockers) ==
    LET file == file_of(square)
        rank == rank_of(square)
    IN  Ray(file, rank, 1, 1, {}) \cup Ray(file, rank, -1, 1, {})
        \cup Ray(file, rank, 1, -1, {}) \cup Ray(file, rank, -1, -1, {})

bishop_attacks(square, blockers) ==
    LET file == file_of(square)
        rank == rank_of(square)
    IN  Ray(file, rank, 1, 1, blockers) \cup Ray(file, rank, -1, 1, blockers)
        \cup Ray(file, rank, 1, -1, blockers) \cup Ray(file, rank, -1, -1, blockers)

rook_attacks(square, blockers) ==
    LET file == file_of(square)
        rank == rank_of(square)
    IN  Ray(file, rank, 0, 1, blockers) \cup Ray(file, rank, 0, -1, blockers)
        \cup Ray(file, rank, 1, 0, blockers) \cup Ray(file, rank, -1, 0, blockers)

queen_attacks(square, blockers) ==
    bishop_attacks(square, blockers) \cup rook_attacks(square, blockers)

pawn_attacks(square, color) ==
    LET file == file_of(square)
        rank == rank_of(square)
        forward == IF color = WHITE THEN 1 ELSE -1
        onBoard == rank + forward >= 0 /\ rank + forward < 8
    IN  (IF file > 0 /\ onBoard THEN {square + forward * 8 - 1} ELSE {})
        \cup (IF file < 7 /\ onBoard THEN {square + forward * 8 + 1} ELSE {})

-----------------------------------------------------------------------------
(* board.hpp / board.cpp: struct Board *)

\* the 64-bit hash is kept as its eight bytes, least significant first
HashZero == <<0, 0, 0, 0, 0, 0, 0, 0>>

\* Board::reset(), the state the constructor leaves
reset ==
    [pieces |-> [pt \in PAWN..KING |-> {}],
     colors |-> [c \in WHITE..BLACK |-> {}],
     side_to_move |-> WHITE,
     castling |-> [c \in WHITE..BLACK |-> [s \in 0..1 |-> TRUE]],
     en_passant_square |-> -1,
     fullmove_number |-> 1,
     halfmove_clock |-> 0,
     hash |-> HashZero]

clear(b) ==
    [b EXCEPT !.pieces = [pt \in PAWN..KING |-> {}],
              !.colors = [c \in WHITE..BLACK |-> {}]]

add_piece(b, square, piece_type, color) ==
    IF piece_type = NO_PIECE THEN b
    ELSE [b EXCEPT !.pieces[piece_type] = @ \cup {square},
                   !.colors[color] = @ \cup {square}]

remove_piece(b, square) ==
    [b EXCEPT !.pieces = [pt \in PAWN..KING |-> b.pieces[pt] \ {square}],
              !.colors = [c \in WHITE..BLACK |-> b.colors[c] \ {square}]]

\* the first piece type, PAWN to KING, whose bitboard holds the square
piece_at(b, square) ==
    IF square < 0 \/ square >= 64 THEN NO_PIECE
    ELSE LET held == {pt \in PAWN..KING : test(b.pieces[pt], square)}
         IN  IF held = {} THEN NO_PIECE ELSE Min(held)

color_at(b, square) ==
    IF square < 0 \/ square >= 64 THEN -1
    ELSE IF test(b.colors[WHITE], square) THEN WHITE
    ELSE IF test(b.colors[BLACK], square) THEN BLACK
    ELSE -1

is_empty(b, square) == piece_at(b, square) = NO_PIECE

pieces_of_color(b, color) == b.colors[color]

all_pieces(b) == b.colors[WHITE] \cup b.colors[BLACK]

move_piece(b, from, to) ==
    add_piece(remove_piece(b, from), to, piece_at(b, from), color_at(b, from))

\* --- 64-bit arithmetic of compute_hash, on bytes ---

Pow2(i) == CASE i = 0 -> 1 [] i = 1 -> 2 [] i = 2 -> 4 [] i = 3 -> 8
             [] i = 4 -> 16 [] i = 5 -> 32 [] i = 6 -> 64 [] i = 7 -> 128

Bit(x, i) == (x \div Pow2(i)) % 2

\* a ^ b for two bytes
XorByte(a, b) ==
    LET d(i) == IF Bit(a, i) = Bit(b, i) THEN 0 ELSE Pow2(i)
    IN  d(0) + d(1) + d(2) + d(3) + d(4) + d(5) + d(6) + d(7)

\* seed ^= v for 0 <= v < 256
XorLow(seed, v) == [seed EXCEPT ![1] = XorByte(@, v)]

\* the seed 1469598103934665603 = 0x14650FB0739D0383 of compute_hash
FnvOffset == <<131, 3, 157, 115, 176, 15, 101, 20>>

\* seed *= 1099511628211 modulo 2^64: the prime is 2^40 + 435, so byte i of the
\* product collects 435 * seed[i], seed[i - 5] (the shift by 40 bits) and the carry
MulFnvPrime(seed) ==
    LET t1 == seed[1] * 435
        t2 == seed[2] * 435 + t1 \div 256
        t3 == seed[3] * 435 + t2 \div 256
        t4 == seed[4] * 435 + t3 \div 256
        t5 == seed[5] * 435 + t4 \div 256
        t6 == seed[6] * 435 + seed[1] + t5 \div 256
        t7 == seed[7] * 435 + seed[2] + t6 \div 256
        t8 == seed[8] * 435 + seed[3] + t7 \div 256
    IN  <<t1 % 256, t2 % 256, t3 % 256, t4 % 256,
          t5 % 256, t6 % 256, t7 % 256, t8 % 256>>

\* what the piece p on sq is xor-ed into the seed as
HashTerm(sq, p) == sq + p * 7

\* one turn of the loop of compute_hash, for the occupied square occ[i]
HashStep(seed, b, occ, i) ==
    IF i > Len(occ) THEN seed
    ELSE MulFnvPrime(XorLow(seed, HashTerm(occ[i], piece_at(b, occ[i]))))

\* the loop of compute_hash over the squares 0..63, of which only the occupied
\* ones (occ, in ascending order) change the seed: seed is the seed before
\* occ[k], and four turns are taken at a time
RECURSIVE HashFrom(_, _, _, _)
HashFrom(seed, b, occ, k) ==
    IF k > Len(occ) \/ Len(seed) # 8 THEN seed
    ELSE HashFrom(HashStep(HashStep(HashStep(HashStep(seed, b, occ, k),
                                             b, occ, k + 1), b, occ, k + 2),
                           b, occ, k + 3),
                  b, occ, k + 4)

compute_hash(b) ==
    LET occ == pop_lsb_order({sq \in Squares : piece_at(b, sq) # NO_PIECE})
    IN  [b EXCEPT !.hash = XorLow(HashFrom(FnvOffset, b, occ, 1), b.side_to_move)]

\* Bitboards::is_square_attacked: is square attacked by a piece of color
is_square_attacked(b, square, color) ==
    LET enemy(pt) == b.pieces[pt] \cap b.colors[color]
        all == all_pieces(b)
    IN  \/ pawn_attacks(square, 1 - color) \cap enemy(PAWN) # {}
        \/ knight_attacks(square) \cap enemy(KNIGHT) # {}
        \/ king_attacks(square) \cap enemy(KING) # {}
        \/ bishop_attacks(square, all) \cap (enemy(BISHOP) \cup enemy(QUEEN)) # {}
        \/ rook_attacks(square, all) \cap (enemy(ROOK) \cup enemy(QUEEN)) # {}

is_in_check(b, color) ==
    LET kings == {sq \in Squares : piece_at(b, sq) = KING /\ color_at(b, sq) = color}
    IN  IF kings = {} THEN FALSE
        ELSE is_square_attacked(b, Min(kings), 1 - color)

\* Board::generate_moves; a move is (from << 6) | to
EncodeMove(from, to) == from * 64 + to

PawnMovesFrom(b, sq) ==
    LET stm == b.side_to_move
        forward == sq + PAWN_MOVE(stm)
        start_rank == IF stm = WHITE THEN 1 ELSE 6
        double_forward == forward + PAWN_MOVE(stm)
        enemy_pieces == pieces_of_color(b, 1 - stm)
        capture(i) ==
            LET cap == sq + PAWN_ATTACK(stm)[i]
            IN  IF cap >= 0 /\ cap < 64
                   /\ (test(enemy_pieces, cap) \/ cap = b.en_passant_square)
                THEN <<EncodeMove(sq, cap)>> ELSE <<>>
    IN  (IF forward >= 0 /\ forward < 64 /\ is_empty(b, forward)
         THEN <<EncodeMove(sq, forward)>>
              \o (IF rank_of(sq) = start_rank /\ is_empty(b, double_forward)
                  THEN <<EncodeMove(sq, double_forward)>> ELSE <<>>)
         ELSE <<>>)
        \o capture(1) \o capture(2)

\* the moves of one piece on sq to the squares of attacks, lowest square first
MovesTo(sq, attacks) ==
    LET order == pop_lsb_order(attacks)
    IN  [i \in 1..Len(order) |-> EncodeMove(sq, order[i])]

PieceMoves(b, pt) ==
    LET stm == b.side_to_move
        our_pieces == pieces_of_color(b, stm)
        all == all_pieces(b)
        from == pop_lsb_order(b.pieces[pt] \cap b.colors[stm])
        attacks(sq) ==
            CASE pt = KNIGHT -> knight_attacks(sq)
              [] pt = KING -> king_attacks(sq)
              [] pt = BISHOP -> bishop_attacks(sq, all)
              [] pt = ROOK -> rook_attacks(sq, all)
              [] pt = QUEEN -> queen_attacks(sq, all)
    IN  Concat([i \in 1..Len(from) |-> MovesTo(from[i], attacks(from[i]) \ our_pieces)])

generate_moves(b) ==
    LET pawns == pop_lsb_order(b.pieces[PAWN] \cap b.colors[b.side_to_move])
    IN  Concat([i \in 1..Len(pawns) |-> PawnMovesFrom(b, pawns[i])])
        \o PieceMoves(b, KNIGHT) \o PieceMoves(b, KING)
        \o PieceMoves(b, BISHOP) \o PieceMoves(b, ROOK) \o PieceMoves(b, QUEEN)

-----------------------------------------------------------------------------
(* search.cpp: make_move, is_legal *)

make_move(b, move) ==
    LET from == move \div 64
        to == move % 64
        piece == piece_at(b, from)
        color == color_at(b, from)
        captured == piece_at(b, to)
        \* the piece is moved: the origin is cleared, the destination only added to
        moved == add_piece(remove_piece(b, from), to, piece, color)
        rank == rank_of(to)
        promoted ==
            IF piece = PAWN /\ ((color = WHITE /\ rank = 7) \/ (color = BLACK /\ rank = 0))
            THEN add_piece(remove_piece(moved, to), to, QUEEN, color)
            ELSE moved
        ep_rank == IF color = WHITE THEN 4 ELSE 3
        ep_sq == (to % 8) + ep_rank * 8
        taken ==
            IF piece = PAWN /\ b.en_passant_square = to
            THEN remove_piece(promoted, ep_sq)
            ELSE promoted
        new_ep ==
            IF piece = PAWN /\ Abs(to - from) = 16 THEN (from + to) \div 2 ELSE -1
        kingMoved(c) == piece = KING /\ color = c
        rookLeft(c, sq) == piece = ROOK /\ color = c /\ from = sq
        new_castling ==
            [c \in WHITE..BLACK |-> [s \in 0..1 |->
                IF kingMoved(c) THEN FALSE
                ELSE IF c = WHITE /\ s = 1 /\ rookLeft(WHITE, 0) THEN FALSE
                ELSE IF c = WHITE /\ s = 0 /\ rookLeft(WHITE, 7) THEN FALSE
                ELSE IF c = BLACK /\ s = 1 /\ rookLeft(BLACK, 56) THEN FALSE
                ELSE IF c = BLACK /\ s = 0 /\ rookLeft(BLACK, 63) THEN FALSE
                ELSE b.castling[c][s]]]
    IN  compute_hash([taken EXCEPT !.en_passant_square = new_ep,
                                   !.castling = new_castling,
                                   !.side_to_move = 1 - color])

is_legal(b, move) ==
    LET test_board == make_move(b, move)
        color == 1 - b.side_to_move
    IN  ~is_in_check(test_board, color)

-----------------------------------------------------------------------------
(* board.cpp: Board::get_fen and Board::set_from_fen *)

Digits == <<"0", "1", "2", "3", "4", "5", "6", "7", "8", "9">>

FileChars == <<"a", "b", "c", "d", "e", "f", "g", "h">>

LowerPieces == <<"p", "n", "b", "r", "q", "k">>

UpperPieces == <<"P", "N", "B", "R", "Q", "K">>

IndexOf(chars, c) == CHOOSE i \in 1..Len(chars) : chars[i] = c

islower(c) == c \in SeqToSet(LowerPieces) \cup SeqToSet(FileChars) \cup {"w"}

tolower(c) ==
    IF c \in SeqToSet(UpperPieces) THEN LowerPieces[IndexOf(UpperPieces, c)] ELSE c

\* operator<< of a non-negative int
RECURSIVE IntToStr(_)
IntToStr(n) ==
    IF n < 10 THEN <<Digits[n + 1]>>
    ELSE IntToStr(n \div 10) \o <<Digits[(n % 10) + 1]>>

\* std::stoi of a string of decimal digits
RECURSIVE DigitsValue(_, _)
DigitsValue(s, acc) ==
    IF s = <<>> \/ Head(s) \notin SeqToSet(Digits) THEN acc
    ELSE DigitsValue(Tail(s), acc * 10 + (IndexOf(Digits, Head(s)) - 1))

stoi(s) == DigitsValue(s, 0)

\* the characters get_fen writes for the files from `file` on of one rank,
\* `empty` being the run of empty squares met so far
RECURSIVE RankChars(_, _, _, _)
RankChars(b, rank, file, empty) ==
    IF file >= 8 THEN (IF empty > 0 THEN IntToStr(empty) ELSE <<>>)
    ELSE LET sq == file + rank * 8
             p == piece_at(b, sq)
             c == color_at(b, sq)
             \* " pnbrqk"[p], lowered again for a black piece
             letter == LowerPieces[p]
             ch == IF c = BLACK THEN tolower(letter) ELSE letter
         IN  IF p = NO_PIECE THEN RankChars(b, rank, file + 1, empty + 1)
             ELSE (IF empty > 0 THEN IntToStr(empty) ELSE <<>>)
                  \o <<ch>> \o RankChars(b, rank, file + 1, 0)

RECURSIVE PlacementChars(_, _)
PlacementChars(b, rank) ==
    RankChars(b, rank, 0, 0)
    \o (IF rank > 0 THEN <<"/">> \o PlacementChars(b, rank - 1) ELSE <<>>)

CastlingChars(b) ==
    LET cast == (IF b.castling[WHITE][0] THEN <<"K">> ELSE <<>>)
                \o (IF b.castling[WHITE][1] THEN <<"Q">> ELSE <<>>)
                \o (IF b.castling[BLACK][0] THEN <<"k">> ELSE <<>>)
                \o (IF b.castling[BLACK][1] THEN <<"q">> ELSE <<>>)
    IN  IF cast = <<>> THEN <<"-">> ELSE cast

get_fen(b) ==
    PlacementChars(b, 7)
    \o <<" ">> \o <<IF b.side_to_move = WHITE THEN "w" ELSE "b">>
    \o <<" ">> \o CastlingChars(b)
    \o <<" ">>
    \o (IF b.en_passant_square = -1 THEN <<"-">>
        ELSE <<FileChars[file_of(b.en_passant_square) + 1],
               Digits[rank_of(b.en_passant_square) + 2]>>)
    \o <<" ">> \o IntToStr(b.fullmove_number)
    \o <<" ">> \o IntToStr(b.halfmove_clock)

\* operator>> on an istringstream: the whitespace-separated words of s
Words(s) ==
    LET starts == {i \in 1..Len(s) : s[i] # " " /\ (i = 1 \/ s[i - 1] = " ")}
        order == pop_lsb_order(starts)
        last(i) == Min({j \in i..Len(s) : j = Len(s) \/ s[j + 1] = " "})
    IN  [k \in 1..Len(order) |-> SubSeq(s, order[k], last(order[k]))]

\* the i-th word read, empty when the stream is exhausted
WordAt(ws, i) == IF i <= Len(ws) THEN ws[i] ELSE <<>>

PieceOfChar(ch) ==
    IF ch \in SeqToSet(LowerPieces) THEN IndexOf(LowerPieces, ch) ELSE NO_PIECE

\* what one character of board_str adds to the square cursor sq
Step(c) ==
    IF c = "/" THEN -16
    ELSE IF c \in {"1", "2", "3", "4", "5", "6", "7", "8"} THEN IndexOf(Digits, c) - 1
    ELSE 1

RECURSIVE Advance(_, _, _)
Advance(str, lo, hi) ==
    IF lo > hi THEN 0
    ELSE IF lo = hi THEN Step(str[lo])
    ELSE LET mid == (lo + hi) \div 2
         IN  Advance(str, lo, mid) + Advance(str, mid + 1, hi)

\* the value of sq when the loop reads str[i]: it starts at 56 (a8)
SquareAt(str, i) == 56 + Advance(str, 1, i - 1)

IsPieceChar(c) == c # "/" /\ c \notin {"1", "2", "3", "4", "5", "6", "7", "8"}

\* the loop over board_str of set_from_fen: an add_piece for every piece letter
ParsePlacement(b, str) ==
    LET at == [i \in 1..Len(str) |-> SquareAt(str, i)]
        letters == {i \in 1..Len(str) : IsPieceChar(str[i])}
        is_white(i) == ~islower(str[i])
        piece_type(i) == PieceOfChar(tolower(str[i]))
    IN  [b EXCEPT
           !.pieces = [pt \in PAWN..KING |->
               b.pieces[pt] \cup {at[i] : i \in {j \in letters : piece_type(j) = pt}}],
           !.colors = [c \in WHITE..BLACK |->
               b.colors[c] \cup {at[i] : i \in {j \in letters :
                   piece_type(j) # NO_PIECE /\ (c = WHITE) = is_white(j)}}]]

find(str, c) == c \in SeqToSet(str)

set_from_fen(b, str) ==
    LET ws == Words(str)
        board_str == WordAt(ws, 1)
        side_str == WordAt(ws, 2)
        castling_str == WordAt(ws, 3)
        ep_str == WordAt(ws, 4)
        move_str1 == WordAt(ws, 5)
        \* a failed read leaves move_str as it was
        move_str2 == IF Len(ws) >= 6 THEN ws[6] ELSE move_str1
        placed == ParsePlacement(clear(b), board_str)
    IN  compute_hash(
          [placed EXCEPT
             !.side_to_move = IF side_str = <<"w">> THEN WHITE ELSE BLACK,
             !.castling = [c \in WHITE..BLACK |-> [s \in 0..1 |->
                 find(castling_str,
                      IF c = WHITE THEN (IF s = 0 THEN "K" ELSE "Q")
                      ELSE (IF s = 0 THEN "k" ELSE "q"))]],
             !.en_passant_square =
                 IF ep_str = <<"-">> THEN -1
                 ELSE (IndexOf(FileChars, ep_str[1]) - 1)
                      + (IndexOf(Digits, ep_str[2]) - 2) * 8,
             !.fullmove_number = IF move_str1 # <<>> THEN stoi(move_str1) ELSE @,
             !.halfmove_clock = IF move_str2 # <<>> THEN stoi(move_str2) ELSE @])

-----------------------------------------------------------------------------
(* evaluation.cpp: the static evaluation the search calls on get_fen's text *)

PAWN_VALUE == 100
KNIGHT_VALUE == 320
BISHOP_VALUE == 330
ROOK_VALUE == 500
QUEEN_VALUE == 900

KNIGHT_PST ==
  << -50, -40, -30, -30, -30, -30, -40, -50,
     -40, -20, 0, 0, 0, 0, -20, -40,
     -30, 0, 10, 15, 15, 10, 0, -30,
     -30, 5, 15, 20, 20, 15, 5, -30,
     -30, 0, 15, 20, 20, 15, 0, -30,
     -30, 5, 10, 15, 15, 10, 5, -30,
     -40, -20, 0, 5, 5, 0, -20, -40,
     -50, -40, -30, -30, -30, -30, -40, -50 >>

BISHOP_PST ==
  << -20, -10, -10, -10, -10, -10, -10, -20,
     -10, 0, 0, 0, 0, 0, 0, -10,
     -10, 0, 5, 10, 10, 5, 0, -10,
     -10, 5, 5, 10, 10, 5, 5, -10,
     -10, 0, 10, 10, 10, 10, 0, -10,
     -10, 10, 10, 10, 10, 10, 10, -10,
     -10, 5, 0, 0, 0, 0, 5, -10,
     -20, -10, -10, -10, -10, -10, -10, -20 >>

ROOK_PST ==
  << 0, 0, 0, 0, 0, 0, 0, 0,
     -5, 0, 0, 0, 0, 0, 0, -5,
     -5, 0, 0, 0, 0, 0, 0, -5,
     -5, 0, 0, 0, 0, 0, 0, -5,
     -5, 0, 0, 0, 0, 0, 0, -5,
     -5, 0, 0, 0, 0, 0, 0, -5,
     -5, 0, 0, 0, 0, 0, 0, -5,
     0, 0, 5, 10, 10, 5, 0, 0 >>

QUEEN_PST ==
  << -20, -10, -10, -5, -5, -10, -10, -20,
     -10, 0, 0, 0, 0, 0, 0, -10,
     -10, 0, 5, 5, 5, 5, 0, -10,
     -5, 0, 5, 5, 5, 5, 0, -5,
     -5, 0, 5, 5, 5, 5, 0, -5,
     -10, 0, 5, 5, 5, 5, 0, -10,
     -10, 0, 0, 0, 0, 0, 0, -10,
     -20, -10, -10, -5, -5, -10, -10, -20 >>

PAWN_PST ==
  << 0, 0, 0, 0, 0, 0, 0, 0,
     50, 50, 50, 50, 50, 50, 50, 50,
     10, 10, 20, 30, 30, 20, 10, 10,
     5, 5, 10, 25, 25, 10, 5, 5,
     0, 0, 0, 20, 20, 0, 0, 0,
     5, -5, -10, 0, 0, -10, -5, 5,
     5, 10, 10, -20, -20, 10, 10, 5,
     0, 0, 0, 0, 0, 0, 0, 0 >>

mirror_square(sq) == 63 - sq

get_pst_value(piece_type, square, color) ==
    LET idx == IF color = 0 THEN square ELSE mirror_square(square)
    IN  CASE piece_type = 1 -> PAWN_PST[idx + 1]
          [] piece_type = 2 -> KNIGHT_PST[idx + 1]
          [] piece_type = 3 -> BISHOP_PST[idx + 1]
          [] piece_type = 4 -> ROOK_PST[idx + 1]
          [] piece_type = 5 -> QUEEN_PST[idx + 1]
          [] OTHER -> 0

\* the loop over board_str of Evaluation::parse_fen: every piece is stored
\* with colour 0, is_white never being cleared; a later write to a square wins
EvalPlacement(str) ==
    LET at == [i \in 1..Len(str) |-> SquareAt(str, i)]
        letters == {i \in 1..Len(str) : IsPieceChar(str[i])}
        is_white == TRUE
        writes(sq) == {i \in letters : at[i] = sq}
        lastWrite(sq) == CHOOSE i \in writes(sq) : \A j \in writes(sq) : j <= i
        written == {at[i] : i \in letters} \cap Squares
    IN  [sq \in written |->
            [type |-> PieceOfChar(tolower(str[lastWrite(sq)])),
             color |-> IF is_white THEN 0 ELSE 1]]
        @@ [sq \in Squares |-> [type |-> 0, color |-> 0]]

parse_fen(str) ==
    LET ws == Words(str)
        board_str == WordAt(ws, 1)
        side_str == WordAt(ws, 2)
        castling_str == WordAt(ws, 3)
    IN  [squares |-> EvalPlacement(board_str),
         side_to_move |-> IF side_str = <<"w">> THEN 0 ELSE 1,
         castling |-> [c \in 0..1 |-> [s \in 0..1 |->
             find(castling_str,
                  IF c = 0 THEN (IF s = 0 THEN "K" ELSE "Q")
                  ELSE (IF s = 0 THEN "k" ELSE "q"))]]]

\* the sum of fn[x] for the x of S within lo..hi
RECURSIVE SumRange(_, _, _, _)
SumRange(S, fn, lo, hi) ==
    IF lo > hi THEN 0
    ELSE IF lo = hi THEN (IF lo \in S THEN fn[lo] ELSE 0)
    ELSE LET mid == (lo + hi) \div 2
         IN  SumRange(S, fn, lo, mid) + SumRange(S, fn, mid + 1, hi)

SumOver(S, fn) == SumRange(S, fn, 0, 63)

IsPiece(eb, sq, type, color) ==
    sq >= 0 /\ sq < 64 /\ eb.squares[sq].type = type /\ eb.squares[sq].color = color

count_material(eb, color) ==
    LET value(i) ==
            CASE eb.squares[i].type = 1 -> PAWN_VALUE
              [] eb.squares[i].type = 2 -> KNIGHT_VALUE
              [] eb.squares[i].type = 3 -> BISHOP_VALUE
              [] eb.squares[i].type = 4 -> ROOK_VALUE
              [] eb.squares[i].type = 5 -> QUEEN_VALUE
              [] OTHER -> 0
        mine == {i \in Squares : eb.squares[i].color = color}
    IN  SumOver(mine, [i \in mine |-> value(i)])

evaluate_piece_activity(eb, color) ==
    LET activity(i) ==
            LET type == eb.squares[i].type
                rank == i \div 8
                file == i % 8
                center_distance == Abs(3 - file) + Abs(3 - rank)
            IN  get_pst_value(type, i, color)
                + (IF (type = 2 \/ type = 3)
                      /\ ((color = 0 /\ rank > 1) \/ (color = 1 /\ rank < 6))
                   THEN 10 ELSE 0)
                + (IF center_distance <= 2 THEN 5 ELSE 0)
        mine == {i \in Squares : eb.squares[i].color = color /\ eb.squares[i].type > 0}
    IN  SumOver(mine, [i \in mine |-> activity(i)])

evaluate_pawn_structure(eb, color) ==
    LET score(i) ==
            LET file == i % 8
                rank == i \div 8
                pawn_ahead == rank + (IF color = 0 THEN 1 ELSE -1)
                is_passed ==
                    ~\E df \in {-1, 0, 1} :
                        /\ file + df >= 0 /\ file + df < 8
                        /\ LET check_sq == (file + df) * 8 + pawn_ahead
                           IN  /\ check_sq >= 0 /\ check_sq < 64
                               /\ eb.squares[check_sq].type = 1
                               /\ eb.squares[check_sq].color # color
                has_neighbor ==
                    \E df \in {-1, 1} :
                        /\ file + df >= 0 /\ file + df < 8
                        /\ \E dr \in {-1, 0, 1} :
                               IsPiece(eb, (file + df) * 8 + rank + dr, 1, color)
                doubled ==
                    \E dr \in {-1, 1} : IsPiece(eb, file * 8 + rank + dr, 1, color)
            IN  (IF is_passed THEN 50 ELSE 0)
                - (IF ~has_neighbor THEN 20 ELSE 0)
                - (IF doubled THEN 10 ELSE 0)
        pawns == {i \in Squares : IsPiece(eb, i, 1, color)}
    IN  SumOver(pawns, [i \in pawns |-> score(i)])

\* the float result is a whole number: the count of the side's pieces on the ranks
evaluate_space(eb, color) ==
    LET start_rank == IF color = 0 THEN 4 ELSE 3
    IN  Cardinality({sq \in Squares :
            /\ sq \div 8 >= start_rank
            /\ eb.squares[sq].color = color /\ eb.squares[sq].type > 0})

evaluate_king_safety(eb, color) ==
    LET kings == {i \in Squares : IsPiece(eb, i, 6, color)}
        king_sq == Min(kings)
        king_file == king_sq % 8
        king_rank == king_sq \div 8
        shield_rank == IF color = 0 THEN king_rank - 1 ELSE king_rank + 1
        shield_bonus ==
            IF shield_rank >= 0 /\ shield_rank < 8
            THEN 10 * Cardinality({df \in {-1, 0, 1} :
                     /\ king_file + df >= 0 /\ king_file + df < 8
                     /\ IsPiece(eb, shield_rank * 8 + king_file + df, 1, color)})
            ELSE 0
        castle_bonus == IF eb.castling[color][0] \/ eb.castling[color][1] THEN 20 ELSE 0
        center_distance == Abs(3 - king_file) + Abs(3 - king_rank)
    IN  IF kings = {} THEN -10000
        ELSE shield_bonus + castle_bonus - center_distance * 3

evaluate_development(eb, color) ==
    LET start_rank == IF color = 0 THEN 0 ELSE 7
        home(file) ==
            LET p == eb.squares[start_rank * 8 + file]
            IN  IF p.type > 0 /\ p.color = color
                THEN (IF p.type = 2 \/ p.type = 3 THEN 1 ELSE 0)
                     + (IF p.type >= 4 /\ p.type <= 6 THEN 1 ELSE 0)
                ELSE 0
        pieces_at_home == SumOver(0..7, [file \in 0..7 |-> home(file)])
    IN  0 - pieces_at_home * 15

is_opening(eb) == count_material(eb, 0) + count_material(eb, 1) > 4000

\* (int)(num / den), rounding toward zero as the conversion to int does
TruncDiv(num, den) == IF num >= 0 THEN num \div den ELSE -((-num) \div den)

\* the accumulation "score += diff * weight" of Evaluation::evaluate with the
\* "classical" weights initialize() sets: material 1.0, piece_activity 0.5,
\* pawn_structure 0.5, space 0.3, king_safety 0.6, development 0.3; each step
\* is computed in float and truncated back into the int score
WeightedSum(material_diff, activity_diff, pawn_diff, space_diff, king_diff, development_diff) ==
    LET s1 == material_diff
        s2 == TruncDiv(2 * s1 + activity_diff, 2)
        s3 == TruncDiv(2 * s2 + pawn_diff, 2)
        s4 == s3 + 3 * space_diff
        s5 == TruncDiv(5 * s4 + 3 * king_diff, 5)
        s6 == TruncDiv(10 * s5 + 3 * development_diff, 10)
    IN  s6

\* Evaluation::evaluate after parse_fen
EvaluateBoard(eb) ==
    WeightedSum(
        count_material(eb, 0) - count_material(eb, 1),
        evaluate_piece_activity(eb, 0) - evaluate_piece_activity(eb, 1),
        evaluate_pawn_structure(eb, 0) - evaluate_pawn_structure(eb, 1),
        evaluate_space(eb, 0) - evaluate_space(eb, 1),
        evaluate_king_safety(eb, 0) - evaluate_king_safety(eb, 1),
        IF is_opening(eb)
        THEN evaluate_development(eb, 0) - evaluate_development(eb, 1)
        ELSE 0)

evaluate(str) == EvaluateBoard(parse_fen(str))

\* search.cpp: evaluate_position
SignFor(score, color) == IF color = WHITE THEN score ELSE -score

evaluate_position(b, color) == SignFor(evaluate(get_fen(b)), color)
-----------------------------------------------------------------------------
(* search.cpp: the tables, move ordering and the candidate filter *)

INT_MAX == 2147483647

max_depth == 20

TT_SIZE == 1048576

Max(a, b) == IF a > b THEN a ELSE b

EmptyEntry == [hash |-> HashZero, depth |-> 0, score |-> 0, move |-> 0, flag |-> 0]

\* hash & (TT_SIZE - 1): the low 20 bits
tt_index(hash) == (hash[1] + 256 * hash[2] + 65536 * hash[3]) % TT_SIZE

\* transposition_table[idx]; a slot not written since initialize() is all zero
EntryAt(tt, idx) == IF idx \in DOMAIN tt THEN tt[idx] ELSE EmptyEntry

\* tt_store keeping the entry its slot holds when that one is deeper
StoreUnlessDeeper(tt, hash, d, score, move, flag) ==
    LET idx == tt_index(hash)
    IN  IF EntryAt(tt, idx).depth > d THEN tt
        ELSE (idx :> [hash |-> hash, depth |-> d, score |-> score,
                      move |-> move, flag |-> flag]) @@ tt

tt_store(tt, hash, d, score, move, flag) ==
    LET idx == tt_index(hash)
    IN  (idx :> [hash |-> hash, depth |-> d, score |-> score,
                 move |-> move, flag |-> flag]) @@ tt

\* tt_probe asking for an entry strictly deeper than required
ProbeStrictlyDeeper(tt, hash, d, score, move) ==
    LET e == EntryAt(tt, tt_index(hash))
    IN  IF e.hash = hash /\ e.depth > d
        THEN [hit |-> TRUE, score |-> e.score, move |-> e.move]
        ELSE [hit |-> FALSE, score |-> score, move |-> move]

\* the return value of tt_probe with what it leaves in score and move; on a
\* miss the caller's variables keep what they held
tt_probe(tt, hash, d, score, move) ==
    LET e == EntryAt(tt, tt_index(hash))
    IN  IF e.hash = hash /\ e.depth >= d
        THEN [hit |-> TRUE, score |-> e.score, move |-> e.move]
        ELSE [hit |-> FALSE, score |-> score, move |-> move]

\* static int killer_moves[64][2]: the number of depths the array has
KillerDepths == 64

\* killer_moves[d][j], j = 0 or 1; outside the array the read is of whatever
\* the memory behind it holds, an indeterminate value like indet
KillerAt(killers, d, j) ==
    IF d \notin 0..(KillerDepths - 1) THEN indet
    ELSE IF d \in DOMAIN killers THEN killers[d][j + 1] ELSE 0

\* history_scores[from][to]
HistoryAt(history, from, to) ==
    IF <<from, to>> \in DOMAIN history THEN history[<<from, to>>] ELSE 0

\* update_history without the halving of the table
UpdateWithoutHalving(history, move, d, bonus) ==
    LET from == move \div 64
        to == move % 64
    IN  (<<from, to>> :> (HistoryAt(history, from, to) + bonus)) @@ history

update_history(history, move, d, bonus) ==
    LET from == move \div 64
        to == move % 64
        added == (<<from, to>> :> (HistoryAt(history, from, to) + bonus)) @@ history
    IN  IF added[<<from, to>>] > 10000
        THEN [k \in DOMAIN added |-> Max(0, TruncDiv(added[k], 2))]
        ELSE added

\* Search::initialize(): all three tables zeroed
initialize == [tt |-> <<>>, killers |-> <<>>, history |-> <<>>]

get_piece_value(piece) ==
    CASE piece = PAWN -> 100
      [] piece = KNIGHT -> 320
      [] piece = BISHOP -> 330
      [] piece = ROOK -> 500
      [] piece = QUEEN -> 900
      [] piece = KING -> 20000
      [] OTHER -> 0

score_move_for_order(b, move, tt_move, d, killers, history) ==
    LET from == move \div 64
        to == move % 64
        piece == piece_at(b, from)
        captured == piece_at(b, to)
        capture_score ==
            IF captured # NO_PIECE
            THEN 10000 + get_piece_value(captured) * 10 - get_piece_value(piece)
            ELSE 0
        killer_score ==
            IF move = KillerAt(killers, d, 0) THEN 8000
            ELSE IF move = KillerAt(killers, d, 1) THEN 7000
            ELSE capture_score
    IN  IF move = tt_move THEN 100000
        ELSE killer_score + HistoryAt(history, from, to)

\* std::sort with a "greater score first" comparison, on the short vectors the
\* search sorts: an insertion sort, each element going in front of the first
\* earlier element of strictly lower score (key[i] is the score of moves[i])
RECURSIVE SortedPrefix(_, _, _)
SortedPrefix(moves, key, n) ==
    IF n = 0 THEN <<>>
    ELSE LET prev == SortedPrefix(moves, key, n - 1)
             lower == {j \in 1..Len(prev) : key[prev[j]] < key[n]}
             at == IF lower = {} THEN Len(prev) + 1 ELSE Min(lower)
         IN  SubSeq(prev, 1, at - 1) \o <<n>> \o SubSeq(prev, at, Len(prev))

SortDescending(moves, key) ==
    LET order == SortedPrefix(moves, key, Len(moves))
    IN  [i \in 1..Len(moves) |-> moves[order[i]]]

order_moves(moves, b, tt_move, d, killers, history) ==
    SortDescending(moves,
        [i \in 1..Len(moves) |->
            score_move_for_order(b, moves[i], tt_move, d, killers, history)])

\* the outputs of std::mt19937 rng(12345) through
\* std::uniform_int_distribution<int>(0, 100), in the order they are drawn
RngTable ==
  << 93, 89, 31, 13, 18, 4, 20, 83, 57, 53, 60, 96, 97, 46, 65, 93, 75, 37, 66, 15,
     75, 90, 97, 2, 0, 29, 10, 40, 30, 81, 66, 63, 81, 91, 88, 56, 97, 84, 73, 5,
     64, 81, 72, 94, 47, 36, 32, 69, 44, 13, 73, 84, 100, 32, 68, 74, 79, 60, 17, 36,
     2, 80, 80, 70, 91, 83, 2, 90, 49, 84, 53, 91, 60, 98, 5, 66, 90, 82, 73, 10,
     82, 23, 50, 38, 81, 70, 9, 48, 22, 41, 26, 64, 47, 76, 46, 56, 71, 70, 17, 92,
     53, 2, 16, 84, 77, 38, 93, 30, 61, 0, 15, 44, 49, 74, 38, 37, 85, 49, 92, 1,
     38, 25, 31, 35, 57, 80, 18, 94, 12, 10, 69, 74, 80, 98, 57, 71, 98, 96, 64, 93,
     89, 41, 50, 34, 35, 77, 72, 33, 50, 8, 22, 90, 24, 79, 80, 72, 50, 44, 92, 75,
     95, 66, 53, 36, 25, 38, 72, 65, 37, 5, 50, 7, 22, 9, 35, 81, 65, 6, 31, 22,
     77, 15, 78, 68, 86, 12, 95, 25, 10, 44, 91, 11, 33, 31, 83, 35, 90, 76, 4, 9,
     19, 94, 29, 32, 63, 43, 8, 27, 14, 79, 52, 45, 69, 8, 86, 7, 65, 33, 58, 19,
     71, 84, 25, 6, 90, 55, 44, 57, 2, 46, 96, 95, 65, 34, 51, 89, 68, 43, 49, 100,
     93, 80, 52, 95, 7, 38, 57, 40, 62, 28, 95, 45, 41, 77, 26, 58, 9, 38, 49, 62,
     46, 74, 3, 92, 70, 53, 72, 52, 73, 10, 41, 12, 1, 65, 91, 45, 79, 7, 16, 15,
     31, 8, 61, 88, 36, 16, 15, 93, 17, 0, 87, 81, 29, 30, 59, 24, 45, 77, 41, 71,
     89, 89, 69, 92, 28, 22, 6, 42, 20, 16, 94, 21, 86, 84, 96, 92, 5, 68, 58, 41,
     48, 22, 2, 84, 37, 78, 41, 74, 60, 86, 67, 98, 84, 41, 78, 60, 40, 74, 80, 26,
     90, 77, 26, 93, 99, 88, 86, 11, 73, 97, 35, 30, 89, 61, 87, 16, 96, 86, 0, 73,
     1, 6, 31, 52, 100, 60, 15, 46, 16, 59, 76, 32, 7, 82, 71, 9, 47, 17, 1, 22,
     78, 47, 80, 92, 15, 100, 2, 61, 76, 92, 22, 37, 26, 0, 46, 66, 25, 16, 57, 50 >>

\* dist(rng) for the draw after pos draws
RngDraw(pos) == RngTable[pos + 1]

\* is the move kept by generate_candidates without asking the generator
AlwaysIncluded(b, move) ==
    LET from == move \div 64
        to == move % 64
        piece == piece_at(b, from)
        captured == piece_at(b, to)
        color == color_at(b, from)
        push == to - from
        test_ == make_move(b, move)
    IN  \/ captured # NO_PIECE
        \/ piece = KING
        \/ piece = PAWN /\ push \in {8, -8, 16, -16, 7, 9, -7, -9}
        \/ is_in_check(test_, 1 - color)

\* the loop of generate_candidates from moves[i] on: the candidates and the
\* number of draws taken from the generator afterwards
RECURSIVE CandidatesFrom(_, _, _, _)
CandidatesFrom(b, moves, i, pos) ==
    IF i > Len(moves) THEN [moves |-> <<>>, rngPos |-> pos]
    ELSE LET move == moves[i]
             piece == piece_at(b, move \div 64)
         IN  IF ~is_legal(b, move) THEN CandidatesFrom(b, moves, i + 1, pos)
             ELSE IF AlwaysIncluded(b, move)
                  THEN LET rest == CandidatesFrom(b, moves, i + 1, pos)
                       IN  [rest EXCEPT !.moves = <<move>> \o @]
             ELSE IF piece # PAWN /\ piece # KING
                  THEN LET rest == CandidatesFrom(b, moves, i + 1, pos + 1)
                       IN  IF RngDraw(pos) < 30
                           THEN [rest EXCEPT !.moves = <<move>> \o @]
                           ELSE rest
             ELSE CandidatesFrom(b, moves, i + 1, pos)

\* every generated move a candidate, none dropped for failing is_legal and no
\* draw taken
UnfilteredCandidates(b, pos) == [moves |-> generate_moves(b), rngPos |-> pos]

generate_candidates(b, pos) == CandidatesFrom(b, generate_moves(b), 1, pos)

\* quiescence_search's score of a capture: victim times ten, less the attacker
MvvLva(b, move) ==
    get_piece_value(piece_at(b, move % 64)) * 10
    - get_piece_value(piece_at(b, move \div 64))

\* every move of all_moves that passes is_legal kept, quiet moves included
LegalAmong(b, all_moves) ==
    LET kept == {i \in 1..Len(all_moves) : is_legal(b, all_moves[i])}
        order == pop_lsb_order(kept)
    IN  [k \in 1..Len(order) |-> all_moves[order[k]]]

\* the moves of all_moves quiescence_search keeps: legal and onto a piece
CapturesAmong(b, all_moves) ==
    LET kept == {i \in 1..Len(all_moves) :
                    /\ is_legal(b, all_moves[i])
                    /\ piece_at(b, all_moves[i] % 64) # NO_PIECE}
        order == pop_lsb_order(kept)
    IN  [k \in 1..Len(order) |-> all_moves[order[k]]]

SortCaptures(b, captures) ==
    SortDescending(captures, [k \in 1..Len(captures) |-> MvvLva(b, captures[k])])

\* the captures quiescence_search collects, in their MVV-LVA order
QuiescenceCaptures(b) == SortCaptures(b, CapturesAmong(b, generate_moves(b)))
-----------------------------------------------------------------------------
(* the bounds of the model and the inputs its scenarios draw from *)

\* search() calls per run
MaxCalls == 2

\* the largest max_search_depth handed to search()
MaxDepth == 2

\* make_move calls per run of the move scenario
MaxPly == 2

\* the most draws the generator has given before a direct generate_candidates call
MaxRngPos == 2

\* K and N against a bare k
KnightEnding ==
    <<"8", "/", "8", "/", "8", "/", "8", "/", "8", "/", "8", "/", "N", "1", "k",
      "5", "/", "K", "7", " ", "w", " ", "-", " ", "-", " ", "0", " ", "1">>

\* the white king is checked by the rook on a8; b1 is its only flight square
RookCheck ==
    <<"r", "7", "/", "8", "/", "8", "/", "8", "/", "8", "/", "2", "k", "5", "/",
      "7", "P", "/", "K", "7", " ", "w", " ", "-", " ", "-", " ", "0", " ", "1">>

\* the white king is checkmated by the two rooks
BackRankMate ==
    <<"r", "r", "5", "k", "/", "8", "/", "8", "/", "8", "/", "8", "/", "8", "/",
      "8", "/", "K", "7", " ", "w", " ", "-", " ", "-", " ", "0", " ", "1">>

\* K against k and a pawn on a2
PawnEnding ==
    <<"8", "/", "8", "/", "8", "/", "8", "/", "8", "/", "k", "7", "/", "p", "7",
      "/", "K", "7", " ", "w", " ", "-", " ", "-", " ", "0", " ", "1">>

\* no white piece: the generator yields no move
NoMoves ==
    <<"7", "k", "/", "8", "/", "8", "/", "8", "/", "8", "/", "8", "/", "8", "/",
      "8", " ", "w", " ", "-", " ", "-", " ", "0", " ", "1">>

\* a promotion on a8 and an en-passant capture on d6 are at hand
EnPassant ==
    <<"7", "k", "/", "P", "7", "/", "8", "/", "3", "p", "P", "3", "/", "8", "/",
      "8", "/", "8", "/", "K", "7", " ", "w", " ", "-", " ", "d", "6", " ", "0",
      " ", "1">>

\* both sides hold their queenside right; Nb6xa8 and Ra1xa2 are at hand
CornerCaptures ==
    <<"r", "3", "k", "3", "/", "8", "/", "1", "N", "6", "/", "8", "/", "8", "/",
      "8", "/", "p", "7", "/", "R", "3", "K", "3", " ", "w", " ", "Q", "q", " ",
      "-", " ", "0", " ", "1">>

\* the standard starting position
StartPosition ==
    <<"r", "n", "b", "q", "k", "b", "n", "r", "/", "p", "p", "p", "p", "p", "p",
      "p", "p", "/", "8", "/", "8", "/", "8", "/", "8", "/", "P", "P", "P", "P",
      "P", "P", "P", "P", "/", "R", "N", "B", "Q", "K", "B", "N", "R", " ", "w",
      " ", "K", "Q", "k", "q", " ", "-", " ", "0", " ", "1">>

\* pawn captures on d5 and g5, each answered by a capture elsewhere
CaptureChain ==
    <<"7", "k", "/", "8", "/", "8", "/", "3", "p", "2", "p", "1", "/", "4", "P",
      "2", "P", "/", "8", "/", "8", "/", "K", "7", " ", "w", " ", "-", " ", "-",
      " ", "0", " ", "1">>

\* after Ka1-b1 the rook on b7 can take the king on b1 or the queen on g7
KingInReach ==
    <<"k", "7", "/", "1", "r", "4", "Q", "1", "/", "8", "/", "8", "/", "8", "/",
      "8", "/", "8", "/", "K", "7", " ", "w", " ", "-", " ", "-", " ", "0", " ",
      "1">>

\* RookCheck with the rook white: compute_hash leaves the colours of the pieces
\* out, so both positions have one hash and one slot of the table
WhiteRook ==
    <<"R", "7", "/", "8", "/", "8", "/", "8", "/", "8", "/", "2", "k", "5", "/",
      "7", "P", "/", "K", "7", " ", "w", " ", "-", " ", "-", " ", "0", " ", "1">>

\* the words of "position fen fen r7/8/8/8/8/2k5/7P/K7 w - - 0 1" after the first
PositionCommands ==
    { <<<<"f", "e", "n">>, <<"f", "e", "n">>,
        <<"r", "7", "/", "8", "/", "8", "/", "8", "/", "8", "/", "2", "k", "5", "/",
          "7", "P", "/", "K", "7">>,
        <<"w">>, <<"-">>, <<"-">>, <<"0">>, <<"1">>>> }

\* a king alone: three moves at the root, and no move in the positions after
\* them, so the search of a depth takes four alpha_beta calls at every depth
LoneKing ==
    <<"8", "/", "8", "/", "8", "/", "8", "/", "8", "/", "8", "/", "8", "/", "K",
      "7", " ", "w", " ", "-", " ", "-", " ", "0", " ", "1">>

\* what the uninitialized tt_move of alpha_beta may read as: no move of any
\* position (0), or the number of a move of most of them (a1b1)
GarbageValues == {0, 1}

SearchPositions ==
    {KnightEnding, RookCheck, BackRankMate, PawnEnding, NoMoves, StartPosition,
     CaptureChain, KingInReach, WhiteRook, LoneKing}

\* the positions also searched to the depth KillerDepths
DeepPositions == {LoneKing}

\* the positions searched to depth 0 and 1 only
ShallowPositions == {StartPosition, CaptureChain}

\* the positions also searched under a time budget of 0
TimedPositions == {RookCheck, BackRankMate, NoMoves}

\* the positions searched under a time budget of 0 to depth 1 only
TimedShallowPositions == {PawnEnding}

MovePositions == {KnightEnding, RookCheck, PawnEnding, EnPassant, CornerCaptures}

\* the fields position descriptions are put together from
Placements ==
    { <<"r", "n", "b", "q", "k", "b", "n", "r", "/", "p", "p", "p", "p", "p", "p",
        "p", "p", "/", "8", "/", "8", "/", "8", "/", "5", "N", "2", "/", "P", "P",
        "P", "P", "P", "P", "P", "P", "/", "R", "N", "B", "Q", "K", "B", "1", "R">>,
      <<"8", "/", "8", "/", "8", "/", "8", "/", "8", "/", "8", "/", "N", "1", "k",
        "5", "/", "K", "7">>,
      <<"4", "k", "3", "/", "8", "/", "8", "/", "3", "p", "P", "3", "/", "8", "/",
        "8", "/", "8", "/", "4", "K", "3">>,
      <<"r", "3", "k", "2", "r", "/", "8", "/", "8", "/", "8", "/", "8", "/", "8",
        "/", "8", "/", "8">> }

Sides == {<<"w">>, <<"b">>}

CastlingFields == {<<"-">>, <<"K", "Q", "k", "q">>, <<"K", "q">>, <<"k">>}

EnPassantFields == {<<"-">>, <<"d", "6">>, <<"e", "3">>}

FenText(placement, side, castling, ep, first, second) ==
    placement \o <<" ">> \o side \o <<" ">> \o castling \o <<" ">> \o ep
    \o <<" ">> \o first \o <<" ">> \o second

FenInputs ==
    {FenText(p, s, c, e, n1, n2) :
        p \in Placements, s \in Sides, c \in CastlingFields,
        e \in EnPassantFields, n1 \in {<<"0">>, <<"1", "2">>}, n2 \in {<<"1">>, <<"7">>}}
-----------------------------------------------------------------------------
(* search.cpp: search, alpha_beta and quiescence_search, one call frame per  *)
(* element of stack, the innermost call last                                 *)

NewFrame(fn, b, d, alpha, beta, color) ==
    [fn |-> fn, phase |-> "enter", board |-> b, depth |-> d, alpha |-> alpha,
     beta |-> beta, color |-> color, moves |-> <<>>, idx |-> 0,
     best_move |-> 0, best_score |-> 0, flag |-> 0]

Top == stack[Len(stack)]

\* get_elapsed_ms() > max_time_ms may answer t: the clock only moves forward,
\* and an int never exceeds INT_MAX
Elapses(t) == (timedOut => t) /\ (t /\ ~timedOut => max_time_ms < INT_MAX)

should_stop(t) == stop_search \/ t

NoResult == [best_move |-> 0, score |-> 0, depth |-> 0]

\* a poll answered stop; inside says whether alpha_beta is running
NoteStop(stop, inside) ==
    /\ stopSeen' = (stopSeen \/ stop)
    /\ interrupted' = IF stop /\ ~stopSeen /\ inside THEN depth ELSE interrupted

\* the innermost call returns v to its caller
Return(v) ==
    /\ stack' = SubSeq(stack, 1, Len(stack) - 1)
    /\ ret' = v
    /\ pc' = "return"

\* the innermost frame becomes f and runs on
Continue(f) ==
    /\ stack' = [stack EXCEPT ![Len(stack)] = f]
    /\ ret' = ret
    /\ pc' = "call"

\* the innermost call, stopped at its loop head, calls itself on the position
\* after its current move
Recurse(child) ==
    /\ stack' = Append(stack, child)
    /\ ret' = ret
    /\ pc' = "call"

\* the draws left in RngTable cover one more generate_candidates call
RngLeft(b) == rngPos + Len(generate_moves(b)) <= Len(RngTable)

\* Search::stop(), which the single-threaded command loop can only reach
\* between two searches
stop ==
    /\ pc = "idle" /\ ~stop_search
    /\ stop_search' = TRUE
    /\ UNCHANGED <<probeVars, fen, go, board, fenOut, pc, ply, lastMove, prevBoard, legalOut,
                   rngPos, cands, timedOut, max_time_ms, search_depth, nodes_searched,
                   transposition_table, killer_moves, history_scores, indet, stack,
                   ret, legal_moves, depth, result, completed, stopSeen, interrupted,
                   writesAfterStop, returned>>

\* UCI::cmd_position: the description put together from the words after
\* "position"; tokens[1] of the code is the second word
position_fen(tokens) ==
    LET startpos == <<"s", "t", "a", "r", "t", "p", "o", "s">>
        fen_parts == <<SubSeq(StartPosition, 1, 43), <<"w">>, <<"K", "Q", "k", "q">>,
                       <<"-">>, <<"0">>, <<"1">>>>
        part(i) == IF i + 2 <= Len(tokens) THEN tokens[i + 2] ELSE fen_parts[i]
    IN  IF Len(tokens) >= 2 /\ tokens[2] = startpos THEN StartPosition
        ELSE IF Len(tokens) >= 2 /\ tokens[2] = <<"f", "e", "n">>
        THEN part(1) \o <<" ">> \o part(2) \o <<" ">> \o part(3) \o <<" ">>
             \o part(4) \o <<" ">> \o part(5) \o <<" ">> \o part(6)
        ELSE StartPosition

\* the "position" command of UCI::loop between two searches: the searches that
\* follow are on the new position, and returned starts again for it
cmd_position ==
    /\ pc = "idle"
    /\ \E tokens \in PositionCommands : fen' = position_fen(tokens)
    /\ returned' = <<>>
    /\ UNCHANGED <<probeVars, go, board, fenOut, pc, ply, lastMove, prevBoard, legalOut,
                   rngPos, cands, stop_search, timedOut, max_time_ms, search_depth,
                   nodes_searched, transposition_table, killer_moves, history_scores,
                   indet, stack, ret, legal_moves, depth, result, completed, stopSeen,
                   interrupted, writesAfterStop>>

\* what search() hands back, with the bookkeeping of this call
Returned(res) ==
    [best_move |-> res.best_move, score |-> res.score, depth |-> res.depth,
     nodes |-> res.nodes, stopped |-> stopSeen, interrupted |-> interrupted,
     completed |-> completed, writesAfterStop |-> writesAfterStop]

\* search(), lines 511-534: set-up, and the early return when the generator
\* yields no move
SearchStart ==
    /\ pc = "idle" /\ Len(returned) < MaxCalls
    /\ LET root == set_from_fen(reset, fen)
           moves == generate_moves(root)
           fresh == [best_move |-> 0, score |-> 0, depth |-> go.max_search_depth,
                     nodes |-> 0]
       IN  /\ board' = root
           /\ result' = fresh
           /\ legal_moves' = moves
           /\ IF moves = <<>>
              THEN /\ returned' = Append(returned,
                          [best_move |-> 0, score |-> 0, depth |-> go.max_search_depth,
                           nodes |-> 0, stopped |-> FALSE, interrupted |-> 0,
                           completed |-> NoResult, writesAfterStop |-> 0])
                   /\ pc' = "idle"
              ELSE /\ returned' = returned
                   /\ pc' = "iterate"
    /\ max_time_ms' = go.max_time_ms_param
    /\ timedOut' = FALSE
    /\ stop_search' = FALSE
    /\ nodes_searched' = 0
    /\ depth' = 1
    /\ stack' = <<>>
    /\ completed' = NoResult
    /\ stopSeen' = FALSE
    /\ interrupted' = 0
    /\ writesAfterStop' = 0
    /\ UNCHANGED <<probeVars, fen, go, fenOut, ply, lastMove, prevBoard, legalOut, rngPos, cands,
                   search_depth, transposition_table, killer_moves, history_scores,
                   indet, ret>>

\* search(), lines 537-544: the loop head of iterative deepening
IterBegin ==
    /\ pc = "iterate"
    /\ \E t \in BOOLEAN :
         /\ Elapses(t)
         /\ IF depth > go.max_search_depth
            THEN /\ pc' = "finish"
                 /\ UNCHANGED <<timedOut, stopSeen, interrupted, search_depth, stack>>
                 /\ t = timedOut
            ELSE /\ timedOut' = t
                 /\ NoteStop(should_stop(t), FALSE)
                 /\ IF should_stop(t)
                    THEN pc' = "finish" /\ UNCHANGED <<search_depth, stack>>
                    ELSE /\ search_depth' = depth
                         /\ stack' = <<NewFrame("alpha_beta", board, depth,
                                                -INT_MAX, INT_MAX, board.side_to_move)>>
                         /\ pc' = "call"
    /\ UNCHANGED <<probeVars, fen, go, board, fenOut, ply, lastMove, prevBoard, legalOut, rngPos,
                   cands, stop_search, max_time_ms, nodes_searched,
                   transposition_table, killer_moves, history_scores, indet, ret,
                   legal_moves, depth, result, completed, writesAfterStop, returned>>

\* int tt_score, tt_move; hold indet until tt_probe writes them
ProbeAt(f) ==
    IF f.depth > 0
    THEN tt_probe(transposition_table, f.board.hash, f.depth, indet, indet)
    ELSE [hit |-> FALSE, score |-> indet, move |-> indet]

\* alpha_beta, lines 434-436: the frame as the move loop starts on moves
LoopFrame(f, moves) ==
    [f EXCEPT !.phase = "loop", !.moves = moves, !.idx = 1, !.best_move = moves[1],
              !.best_score = -INT_MAX, !.flag = 1]

\* alpha_beta, lines 405-436, once should_stop() has answered stopNow, the
\* probe has answered probe and generate_candidates would answer gen
ABEnterStep(f, stopNow, probe, gen) ==
    IF stopNow THEN Return(0) /\ rngPos' = rngPos
    ELSE IF probe.hit /\ probe.score >= f.beta
         THEN Return(f.beta) /\ rngPos' = rngPos
    ELSE IF probe.hit /\ probe.score <= f.alpha
         THEN Return(f.alpha) /\ rngPos' = rngPos
    ELSE IF f.depth = 0
         THEN /\ Continue([f EXCEPT !.fn = "quiescence_search"])
              /\ rngPos' = rngPos
    ELSE IF is_in_check(f.board, f.color)
         THEN Return(-10000 + (max_depth - f.depth)) /\ rngPos' = rngPos
    ELSE IF gen.moves = <<>>
         THEN /\ Return(evaluate_position(f.board, f.color))
              /\ rngPos' = gen.rngPos
    ELSE /\ Continue(LoopFrame(f, order_moves(gen.moves, f.board, probe.move, f.depth,
                                               killer_moves, history_scores)))
         /\ rngPos' = gen.rngPos

\* alpha_beta, lines 397-436: from the call to the first turn of the move loop
ABEnter ==
    /\ pc = "call" /\ Top.fn = "alpha_beta" /\ Top.phase = "enter"
    /\ RngLeft(Top.board)
    /\ \E t \in BOOLEAN :
         /\ Elapses(t)
         /\ timedOut' = t
         /\ NoteStop(should_stop(t), TRUE)
         /\ ABEnterStep(Top, should_stop(t), ProbeAt(Top),
                        generate_candidates(Top.board, rngPos))
    /\ nodes_searched' = nodes_searched + 1
    /\ UNCHANGED <<probeVars, fen, go, board, fenOut, ply, lastMove, prevBoard, legalOut, cands,
                   stop_search, max_time_ms, search_depth, transposition_table,
                   killer_moves, history_scores, indet, legal_moves, depth, result,
                   completed, writesAfterStop, returned>>

\* alpha_beta, lines 439-443: the head of the move loop and the recursive call
ABLoop ==
    /\ pc = "call" /\ Top.fn = "alpha_beta" /\ Top.phase = "loop"
    /\ \E t \in BOOLEAN :
         /\ Elapses(t)
         /\ timedOut' = t
         /\ NoteStop(should_stop(t), TRUE)
         /\ LET f == Top
                move == f.moves[f.idx]
                new_board == make_move(f.board, move)
            IN  IF should_stop(t) THEN Return(0)
                ELSE Recurse(NewFrame("alpha_beta", new_board, f.depth - 1,
                                      -f.beta, -f.alpha, 1 - f.color))
    /\ UNCHANGED <<probeVars, fen, go, board, fenOut, ply, lastMove, prevBoard, legalOut, rngPos,
                   cands, stop_search, max_time_ms, search_depth, nodes_searched,
                   transposition_table, killer_moves, history_scores, indet,
                   legal_moves, depth, result, completed, writesAfterStop, returned>>

\* alpha_beta, lines 443-471: the recursive call has returned ret; the rest of
\* the loop body, and after the last move or a cutoff the tt_store and return
ABReturn ==
    /\ pc = "return" /\ stack # <<>> /\ Top.fn = "alpha_beta"
    /\ LET f == Top
           move == f.moves[f.idx]
           score == -ret
           better == score > f.best_score
           raised == better /\ score > f.alpha
           cutoff == raised /\ score >= f.beta
           best_score == IF better THEN score ELSE f.best_score
           best_move == IF better THEN move ELSE f.best_move
           alpha == IF raised THEN score ELSE f.alpha
           flag == IF cutoff THEN 2 ELSE IF raised THEN 3 ELSE f.flag
           killers ==
               IF cutoff /\ Len(f.moves) > 1
               THEN (f.depth :> <<move, KillerAt(killer_moves, f.depth, 0)>>)
                    @@ killer_moves
               ELSE killer_moves
           history ==
               IF cutoff
               THEN update_history(history_scores, move, f.depth, f.depth * f.depth)
               ELSE history_scores
           done == cutoff \/ f.idx = Len(f.moves)
           writes == (IF cutoff /\ Len(f.moves) > 1 THEN 1 ELSE 0)
                     + (IF cutoff THEN 1 ELSE 0) + (IF done THEN 1 ELSE 0)
       IN  /\ killer_moves' = killers
           /\ history_scores' = history
           /\ writesAfterStop' = writesAfterStop + (IF stopSeen THEN writes ELSE 0)
           /\ IF done
              THEN /\ transposition_table' =
                          tt_store(transposition_table, f.board.hash, f.depth,
                                   best_score, best_move, flag)
                   /\ Return(best_score)
              ELSE /\ transposition_table' = transposition_table
                   /\ Continue([f EXCEPT !.idx = f.idx + 1, !.alpha = alpha,
                                         !.best_score = best_score,
                                         !.best_move = best_move, !.flag = flag])
    /\ UNCHANGED <<probeVars, fen, go, board, fenOut, ply, lastMove, prevBoard, legalOut, rngPos,
                   cands, stop_search, timedOut, max_time_ms, search_depth,
                   nodes_searched, indet, legal_moves, depth, result, completed,
                   stopSeen, interrupted, returned>>

\* quiescence_search, lines 343-378, with the stand-pat score and the sorted
\* captures computed
QEnterStep(f, stand_pat, captures) ==
    IF stand_pat >= f.beta THEN Return(f.beta)
    ELSE IF captures = <<>> THEN Return(Max(stand_pat, f.alpha))
    ELSE Continue([f EXCEPT !.phase = "loop", !.alpha = Max(stand_pat, f.alpha),
                            !.moves = captures, !.idx = 1])

\* quiescence_search, lines 339-378: from the call to the first capture
QEnter ==
    /\ pc = "call" /\ Top.fn = "quiescence_search" /\ Top.phase = "enter"
    /\ QEnterStep(Top, evaluate_position(Top.board, Top.color),
                  QuiescenceCaptures(Top.board))
    /\ nodes_searched' = nodes_searched + 1
    /\ UNCHANGED <<probeVars, fen, go, board, fenOut, ply, lastMove, prevBoard, legalOut, rngPos,
                   cands, stop_search, timedOut, max_time_ms, search_depth,
                   transposition_table, killer_moves, history_scores, indet,
                   legal_moves, depth, result, completed, stopSeen, interrupted,
                   writesAfterStop, returned>>

\* quiescence_search, lines 381-385: the head of the capture loop and the
\* recursive call
QLoop ==
    /\ pc = "call" /\ Top.fn = "quiescence_search" /\ Top.phase = "loop"
    /\ \E t \in BOOLEAN :
         /\ Elapses(t)
         /\ timedOut' = t
         /\ NoteStop(should_stop(t), TRUE)
         /\ LET f == Top
                move == f.moves[f.idx]
                new_board == make_move(f.board, move)
            IN  IF should_stop(t) THEN Return(f.alpha)
                ELSE Recurse(NewFrame("quiescence_search", new_board, f.depth,
                                      -f.beta, -f.alpha, 1 - f.color))
    /\ UNCHANGED <<probeVars, fen, go, board, fenOut, ply, lastMove, prevBoard, legalOut, rngPos,
                   cands, stop_search, max_time_ms, search_depth, nodes_searched,
                   transposition_table, killer_moves, history_scores, indet,
                   legal_moves, depth, result, completed, writesAfterStop, returned>>

\* quiescence_search, lines 385-393: the recursive call has returned ret
QReturn ==
    /\ pc = "return" /\ stack # <<>> /\ Top.fn = "quiescence_search"
    /\ LET f == Top
           score == -ret
           alpha == IF score > f.alpha THEN score ELSE f.alpha
       IN  IF score > f.alpha /\ alpha >= f.beta THEN Return(f.beta)
           ELSE IF f.idx = Len(f.moves) THEN Return(alpha)
           ELSE Continue([f EXCEPT !.idx = f.idx + 1, !.alpha = alpha])
    /\ UNCHANGED <<probeVars, fen, go, board, fenOut, ply, lastMove, prevBoard, legalOut, rngPos,
                   cands, stop_search, timedOut, max_time_ms, search_depth,
                   nodes_searched, transposition_table, killer_moves, history_scores,
                   indet, legal_moves, depth, result, completed, stopSeen,
                   interrupted, writesAfterStop, returned>>

\* the table move read without the test against legal_moves
TableMoveUnchecked(tt_move, moves) ==
    tt_move

\* search(), lines 553-562: the move of the root's slot is the best move only if
\* generate_moves returned it for the root, the first generated move otherwise
root_best_move(tt_move, moves) ==
    LET tt_move_legal == tt_move \in SeqToSet(moves)
    IN  IF tt_move_legal THEN tt_move ELSE moves[1]

\* search(), lines 546-574: the root alpha_beta has returned ret
IterEnd ==
    /\ pc = "return" /\ stack = <<>>
    /\ \E t \in BOOLEAN :
         /\ Elapses(t)
         /\ timedOut' = t
         /\ NoteStop(should_stop(t), FALSE)
         /\ LET score == ret
                idx == tt_index(board.hash)
                tt_move == EntryAt(transposition_table, idx).move
                best == root_best_move(tt_move, legal_moves)
                res == [result EXCEPT !.score = score, !.depth = depth,
                                      !.best_move = best]
            IN  /\ result' = res
                /\ completed' = IF stopSeen THEN completed
                                ELSE [best_move |-> best, score |-> score,
                                      depth |-> depth]
                /\ IF should_stop(t)
                   THEN pc' = "finish" /\ depth' = depth
                   ELSE pc' = "iterate" /\ depth' = depth + 1
    /\ UNCHANGED <<probeVars, fen, go, board, fenOut, ply, lastMove, prevBoard, legalOut, rngPos,
                   cands, stop_search, max_time_ms, search_depth, nodes_searched,
                   transposition_table, killer_moves, history_scores, indet, stack,
                   ret, legal_moves, writesAfterStop, returned>>

\* search(), lines 576-584: the fallback move and the return
SearchFinish ==
    /\ pc = "finish"
    /\ LET best == IF result.best_move = 0 /\ legal_moves # <<>>
                   THEN legal_moves[1] ELSE result.best_move
           res == [result EXCEPT !.nodes = nodes_searched, !.best_move = best]
       IN  /\ result' = res
           /\ returned' = Append(returned, Returned(res))
    /\ pc' = "idle"
    /\ UNCHANGED <<probeVars, fen, go, board, fenOut, ply, lastMove, prevBoard, legalOut, rngPos,
                   cands, stop_search, timedOut, max_time_ms, search_depth,
                   nodes_searched, transposition_table, killer_moves, history_scores,
                   indet, stack, ret, legal_moves, depth, completed, stopSeen,
                   interrupted, writesAfterStop>>
-----------------------------------------------------------------------------
(* The search scenario: the command loop calls search() on one position, with *)
(* the same parameters, up to MaxCalls times                                  *)

\* no tt_store call yet
NoStore == [hash |-> HashZero, depth |-> 0, score |-> 0, move |-> 0, flag |-> 0, done |-> FALSE, replaced |-> HashZero]

\* no tt_probe call yet
NoProbe == [hash |-> HashZero, depth |-> 0, hit |-> FALSE, score |-> 0, move |-> 0, asked |-> FALSE, afterStore |-> FALSE]

Idle ==
    /\ board = reset /\ fenOut = <<>> /\ ply = 0 /\ lastMove = 0
    /\ prevBoard = reset /\ legalOut = FALSE /\ cands = <<>>
    /\ stop_search = FALSE /\ timedOut = FALSE /\ max_time_ms = 30000
    /\ search_depth = 10 /\ nodes_searched = 0
    /\ transposition_table = initialize.tt
    /\ killer_moves = initialize.killers
    /\ history_scores = initialize.history
    /\ stack = <<>> /\ ret = 0 /\ legal_moves = <<>> /\ depth = 0
    /\ result = [best_move |-> 0, score |-> 0, depth |-> 0, nodes |-> 0]
    /\ completed = NoResult /\ stopSeen = FALSE /\ interrupted = 0
    /\ writesAfterStop = 0 /\ returned = <<>>
    /\ stored = {} /\ lastStore = NoStore /\ probeOut = NoProbe
    /\ updates = 0 /\ attackOut = {}

Init ==
    /\ fen \in SearchPositions
    /\ go \in {[max_time_ms_param |-> t, max_search_depth |-> d] :
                  t \in {0, INT_MAX}, d \in 0..MaxDepth \cup {KillerDepths}}
    /\ go.max_search_depth > MaxDepth => fen \in DeepPositions
    /\ fen \in ShallowPositions => go.max_search_depth <= 1
    /\ go.max_time_ms_param = 0 =>
           \/ fen \in TimedPositions
           \/ fen \in TimedShallowPositions /\ go.max_search_depth = 1
    /\ indet \in GarbageValues
    /\ rngPos = 0
    /\ pc = "idle"
    /\ attackSq = 0
    /\ Idle

Next ==
    \/ SearchStart
    \/ IterBegin
    \/ ABEnter
    \/ ABLoop
    \/ ABReturn
    \/ QEnter
    \/ QLoop
    \/ QReturn
    \/ IterEnd
    \/ SearchFinish
    \/ stop
    \/ cmd_position

Spec == Init /\ [][Next]_vars

-----------------------------------------------------------------------------
(* The position-description scenario of test_fen.cpp: a description is loaded, *)
(* written back, and what was written is loaded again                          *)

InitFen ==
    /\ fen \in FenInputs
    /\ go = [max_time_ms_param |-> 0, max_search_depth |-> 0]
    /\ indet = 0
    /\ rngPos = 0
    /\ pc = "start"
    /\ attackSq = 0
    /\ Idle

LoadFen ==
    /\ pc = "start"
    /\ board' = set_from_fen(board, fen)
    /\ pc' = "loaded"
    /\ UNCHANGED <<probeVars, fen, go, fenOut, ply, lastMove, prevBoard, legalOut, rngPos, cands,
                   tableVars, stop_search, timedOut, max_time_ms, search_depth,
                   nodes_searched, indet, stack, ret, legal_moves, depth, result,
                   completed, stopSeen, interrupted, writesAfterStop, returned>>

WriteFen ==
    /\ pc = "loaded"
    /\ fenOut' = get_fen(board)
    /\ pc' = "written"
    /\ UNCHANGED <<probeVars, fen, go, board, ply, lastMove, prevBoard, legalOut, rngPos, cands,
                   tableVars, stop_search, timedOut, max_time_ms, search_depth,
                   nodes_searched, indet, stack, ret, legal_moves, depth, result,
                   completed, stopSeen, interrupted, writesAfterStop, returned>>

ReloadFen ==
    /\ pc = "written"
    /\ prevBoard' = board
    /\ board' = set_from_fen(board, fenOut)
    /\ pc' = "reloaded"
    /\ UNCHANGED <<probeVars, fen, go, fenOut, ply, lastMove, legalOut, rngPos, cands,
                   tableVars, stop_search, timedOut, max_time_ms, search_depth,
                   nodes_searched, indet, stack, ret, legal_moves, depth, result,
                   completed, stopSeen, interrupted, writesAfterStop, returned>>

NextFen ==
    \/ LoadFen
    \/ WriteFen
    \/ ReloadFen

SpecFen == InitFen /\ [][NextFen]_vars

-----------------------------------------------------------------------------
(* The move scenario: up to MaxPly generated moves are made on a position,   *)
(* then is_legal or generate_candidates is asked about the position reached  *)

InitMoves ==
    /\ fen \in MovePositions
    /\ go = [max_time_ms_param |-> 0, max_search_depth |-> 0]
    /\ indet = 0
    /\ rngPos \in 0..MaxRngPos
    /\ pc = "position"
    /\ attackSq = 0
    /\ Idle

\* the position command: the description is loaded into the board
SetPosition ==
    /\ pc = "position"
    /\ board' = set_from_fen(board, fen)
    /\ pc' = "moved"
    /\ UNCHANGED <<probeVars, fen, go, fenOut, ply, lastMove, prevBoard, legalOut, rngPos, cands,
                   tableVars, stop_search, timedOut, max_time_ms, search_depth,
                   nodes_searched, indet, stack, ret, legal_moves, depth, result,
                   completed, stopSeen, interrupted, writesAfterStop, returned>>

MakeMove ==
    /\ pc = "moved" /\ ply < MaxPly
    /\ \E move \in SeqToSet(generate_moves(board)) :
         /\ prevBoard' = board
         /\ lastMove' = move
         /\ board' = make_move(board, move)
    /\ ply' = ply + 1
    /\ UNCHANGED <<probeVars, fen, go, fenOut, pc, legalOut, rngPos, cands,
                   tableVars, stop_search, timedOut, max_time_ms, search_depth,
                   nodes_searched, indet, stack, ret, legal_moves, depth, result,
                   completed, stopSeen, interrupted, writesAfterStop, returned>>

IsLegal ==
    /\ pc = "moved"
    /\ \E move \in SeqToSet(generate_moves(board)) :
         /\ lastMove' = move
         /\ legalOut' = is_legal(board, move)
    /\ pc' = "is_legal"
    /\ UNCHANGED <<probeVars, fen, go, board, fenOut, ply, prevBoard, rngPos, cands,
                   tableVars, stop_search, timedOut, max_time_ms, search_depth,
                   nodes_searched, indet, stack, ret, legal_moves, depth, result,
                   completed, stopSeen, interrupted, writesAfterStop, returned>>

GenerateCandidates ==
    /\ pc = "moved"
    /\ LET gen == generate_candidates(board, rngPos)
       IN  cands' = gen.moves /\ rngPos' = gen.rngPos
    /\ pc' = "candidates"
    /\ UNCHANGED <<probeVars, fen, go, board, fenOut, ply, lastMove, prevBoard, legalOut,
                   tableVars, stop_search, timedOut, max_time_ms, search_depth,
                   nodes_searched, indet, stack, ret, legal_moves, depth, result,
                   completed, stopSeen, interrupted, writesAfterStop, returned>>

NextMoves ==
    \/ SetPosition
    \/ MakeMove
    \/ IsLegal
    \/ GenerateCandidates

SpecMoves == InitMoves /\ [][NextMoves]_vars

-----------------------------------------------------------------------------
(* The table scenario: after initialize(), tt_store and tt_probe are called  *)
(* in any order on a few hashes, two of which share a slot                   *)

\* the largest depth tt_store is called with
MaxTableDepth == 2

\* the hash initialize() leaves in every slot, a hash of slot 1, and a second
\* hash of slot 1 that differs from it in the top byte
TableHashes == {HashZero, <<1, 0, 0, 0, 0, 0, 0, 0>>, <<1, 0, 0, 0, 0, 0, 0, 1>>}

TableScores == {-5, 7}

TableMoves == {513}

TableFlags == {3}

InitTable ==
    /\ fen = NoMoves
    /\ go = [max_time_ms_param |-> 0, max_search_depth |-> 0]
    /\ indet = 0
    /\ rngPos = 0
    /\ pc = "table"
    /\ attackSq = 0
    /\ Idle

\* Search::initialize() called again
Initialize ==
    /\ pc \in {"stored", "probed"}
    /\ transposition_table' = initialize.tt
    /\ killer_moves' = initialize.killers
    /\ history_scores' = initialize.history
    /\ stored' = {}
    /\ lastStore' = NoStore
    /\ pc' = "table"
    /\ UNCHANGED <<attackSq, attackOut, updates, probeOut, fen, go, board, fenOut, ply, lastMove, prevBoard, legalOut,
                   rngPos, cands, stop_search, timedOut, max_time_ms, search_depth,
                   nodes_searched, indet, stack, ret, legal_moves, depth, result,
                   completed, stopSeen, interrupted, writesAfterStop, returned>>

TtStore ==
    /\ pc \in {"table", "stored", "probed"}
    /\ \E hash \in TableHashes, d \in 0..MaxTableDepth, score \in TableScores,
          move \in TableMoves, flag \in TableFlags :
         /\ transposition_table' = tt_store(transposition_table, hash, d, score, move, flag)
         /\ stored' = stored \cup {hash}
         /\ lastStore' = [hash |-> hash, depth |-> d, score |-> score, move |-> move,
                          flag |-> flag, done |-> TRUE,
                          replaced |-> EntryAt(transposition_table, tt_index(hash)).hash]
    /\ pc' = "stored"
    /\ UNCHANGED <<attackSq, attackOut, updates, probeOut, fen, go, board, fenOut, ply, lastMove, prevBoard, legalOut,
                   rngPos, cands, killer_moves, history_scores, stop_search, timedOut,
                   max_time_ms, search_depth, nodes_searched, indet, stack, ret,
                   legal_moves, depth, result, completed, stopSeen, interrupted,
                   writesAfterStop, returned>>

\* tt_probe called with the caller's score and move holding 0
TtProbe ==
    /\ pc \in {"table", "stored", "probed"}
    /\ \E hash \in TableHashes, d \in 0..(MaxTableDepth + 1) :
         probeOut' = [hash |-> hash, depth |-> d,
                      hit |-> tt_probe(transposition_table, hash, d, 0, 0).hit,
                      score |-> tt_probe(transposition_table, hash, d, 0, 0).score,
                      move |-> tt_probe(transposition_table, hash, d, 0, 0).move,
                      asked |-> TRUE, afterStore |-> pc = "stored"]
    /\ pc' = "probed"
    /\ UNCHANGED <<attackSq, attackOut, updates, stored, lastStore, fen, go, board, fenOut, ply, lastMove, prevBoard,
                   legalOut, rngPos, cands, tableVars, stop_search, timedOut,
                   max_time_ms, search_depth, nodes_searched, indet, stack, ret,
                   legal_moves, depth, result, completed, stopSeen, interrupted,
                   writesAfterStop, returned>>

NextTable ==
    \/ Initialize
    \/ TtStore
    \/ TtProbe

SpecTable == InitTable /\ [][NextTable]_vars


-----------------------------------------------------------------------------
(* The history scenario: after initialize(), update_history is called as    *)
(* alpha_beta calls it, with bonus depth * depth, on a few moves and depths  *)

\* update_history calls per run
MaxUpdates == 6

\* a1b1 and a1a2
HistoryMoves == {1, 8}

\* the depths of the calls: the least, one in between and the greatest the
\* killer and history tables are made for
HistoryDepths == {1, 45, 63}

InitHistory ==
    /\ fen = NoMoves
    /\ go = [max_time_ms_param |-> 0, max_search_depth |-> 0]
    /\ indet = 0
    /\ rngPos = 0
    /\ pc = "history"
    /\ attackSq = 0
    /\ Idle

\* alpha_beta, line 461: update_history(move, depth, depth * depth)
UpdateHistory ==
    /\ pc = "history" /\ updates < MaxUpdates
    /\ \E move \in HistoryMoves, d \in HistoryDepths :
         history_scores' = update_history(history_scores, move, d, d * d)
    /\ updates' = updates + 1
    /\ UNCHANGED <<attackSq, attackOut, stored, lastStore, probeOut, fen, go, board, fenOut, pc, ply, lastMove,
                   prevBoard, legalOut, rngPos, cands, transposition_table,
                   killer_moves, stop_search, timedOut, max_time_ms, search_depth,
                   nodes_searched, indet, stack, ret, legal_moves, depth, result,
                   completed, stopSeen, interrupted, writesAfterStop, returned>>

NextHistory == UpdateHistory

SpecHistory == InitHistory /\ [][NextHistory]_vars

-----------------------------------------------------------------------------
(* The attack scenario: knight_attacks or king_attacks is asked about a      *)
(* square of the board                                                       *)

InitAttacks ==
    /\ fen = NoMoves
    /\ go = [max_time_ms_param |-> 0, max_search_depth |-> 0]
    /\ indet = 0
    /\ rngPos = 0
    /\ pc = "square"
    /\ attackSq \in Squares
    /\ Idle

KnightAttacks ==
    /\ pc = "square"
    /\ attackOut' = knight_attacks(attackSq)
    /\ pc' = "knight"
    /\ UNCHANGED <<attackSq, updates, stored, lastStore, probeOut, fen, go, board, fenOut,
                   ply, lastMove, prevBoard, legalOut, rngPos, cands, tableVars,
                   stop_search, timedOut, max_time_ms, search_depth, nodes_searched,
                   indet, stack, ret, legal_moves, depth, result, completed, stopSeen,
                   interrupted, writesAfterStop, returned>>

KingAttacks ==
    /\ pc = "square"
    /\ attackOut' = king_attacks(attackSq)
    /\ pc' = "king"
    /\ UNCHANGED <<attackSq, updates, stored, lastStore, probeOut, fen, go, board, fenOut,
                   ply, lastMove, prevBoard, legalOut, rngPos, cands, tableVars,
                   stop_search, timedOut, max_time_ms, search_depth, nodes_searched,
                   indet, stack, ret, legal_moves, depth, result, completed, stopSeen,
                   interrupted, writesAfterStop, returned>>

NextAttacks ==
    \/ KnightAttacks
    \/ KingAttacks

SpecAttacks == InitAttacks /\ [][NextAttacks]_vars

-----------------------------------------------------------------------------
(* The properties                                                            *)

\* the position after the move: what stood on the destination is taken off
\* the board, then the move is made
AfterMove(b, move) == make_move(remove_piece(b, move % 64), move)

\* the mover's own king is not attacked once the move is made
LeavesKingSafe(b, move) == ~is_in_check(AfterMove(b, move), b.side_to_move)

\* the legal moves of a position
LegalMovesOf(b) == {move \in SeqToSet(generate_moves(b)) : LeavesKingSafe(b, move)}

SamePlacement(a, b) ==
    \A sq \in Squares :
        /\ \A pt \in PAWN..KING : test(a.pieces[pt], sq) <=> test(b.pieces[pt], sq)
        /\ \A c \in WHITE..BLACK : test(a.colors[c], sq) <=> test(b.colors[c], sq)

SameState(a, b) ==
    /\ SamePlacement(a, b)
    /\ a.side_to_move = b.side_to_move
    /\ a.castling = b.castling
    /\ a.en_passant_square = b.en_passant_square
    /\ a.halfmove_clock = b.halfmove_clock
    /\ a.fullmove_number = b.fullmove_number

\* C1: a description loaded with set_from_fen and written with get_fen
\* describes the state that was loaded: every piece on its square with its
\* type and colour, the side to move, the castling rights, the en-passant
\* target and both counters (prevBoard is the state loaded first, board the
\* state the written description loads to)
FenRoundTrip == pc = "reloaded" => SameState(board, prevBoard)

ReturnsLegalMove(r, legal) ==
    legal # {} => r.best_move # 0 /\ r.best_move \in legal

\* C2: when the root position has a legal move, every search() returns a
\* best_move that is not 0 and is legal at the root, whatever the time budget
\* and the maximum depth, interrupted or not
SearchReturnsLegalMove ==
    \A i \in 1..Len(returned) : ReturnsLegalMove(returned[i], LegalMovesOf(board))

\* C3: when the iteration at depth d+1 is interrupted after the iteration at
\* depth d completed, search() returns the best move, score and depth of the
\* completed iteration
InterruptedKeepsCompleted ==
    \A i \in 1..Len(returned) :
        returned[i].interrupted >= 2
        => /\ returned[i].completed.depth = returned[i].interrupted - 1
           /\ returned[i].best_move = returned[i].completed.best_move
           /\ returned[i].score = returned[i].completed.score
           /\ returned[i].depth = returned[i].completed.depth

ReturnsForcedMove(r, legal) == Cardinality(legal) = 1 => r.best_move \in legal

\* C4: at a root position with exactly one legal move, every search() returns
\* that move
ForcedMoveReturned ==
    \A i \in 1..Len(returned) : ReturnsForcedMove(returned[i], LegalMovesOf(board))

Checkmate(b) == LegalMovesOf(b) = {} /\ is_in_check(b, b.side_to_move)

\* C5: at a root position where the side to move is checkmated, every
\* search() returns best_move 0 and a score no higher than the score
\* alpha_beta gives a king in check
CheckmateReported ==
    \A i \in 1..Len(returned) :
        Checkmate(board)
        => returned[i].best_move = 0 /\ returned[i].score <= -10000 + max_depth

\* C6: two consecutive calls of search() on the same position with the same
\* maximum depth, neither of them stopped, return the same best move and the
\* same score
SearchDeterministic ==
    \A i \in 1..(Len(returned) - 1) :
        ~returned[i].stopped /\ ~returned[i + 1].stopped
        => /\ returned[i].best_move = returned[i + 1].best_move
           /\ returned[i].score = returned[i + 1].score

PlacementConsistent(b) ==
    \A sq \in Squares :
        LET types == {pt \in PAWN..KING : test(b.pieces[pt], sq)}
            sides == {c \in WHITE..BLACK : test(b.colors[c], sq)}
        IN  \/ types = {} /\ sides = {}
            \/ Cardinality(types) = 1 /\ Cardinality(sides) = 1

\* C7: after any sequence of make_move on generated moves from a consistent
\* position, every occupied square is in exactly one piece-type set and in
\* exactly one colour set
PlacementConsistency == PlacementConsistent(board)

\* C8: is_legal(position, move) is true exactly when, after the move, the
\* king of the side that moved is not attacked
IsLegalMeansKingSafe ==
    pc = "is_legal" => (legalOut <=> LeavesKingSafe(board, lastMove))

\* the call frame p, waiting for the call it made, made it on the position
\* after a move of its list that passes is_legal
RecursedOnLegal(p, child) ==
    /\ p.phase = "loop"
    /\ p.idx \in 1..Len(p.moves)
    /\ is_legal(p.board, p.moves[p.idx])
    /\ child.board = make_move(p.board, p.moves[p.idx])

\* C9: every move on which alpha_beta or quiescence_search makes a move to
\* recurse has passed is_legal on the position it is made on
RecursesOnLegalMoves ==
    \A i \in 1..(Len(stack) - 1) : RecursedOnLegal(stack[i], stack[i + 1])

\* an alpha_beta call and a quiescence_search call are both waiting for a
\* call they made
RecursesOnLegalMovesWitness ==
    /\ \E i \in 1..(Len(stack) - 1) : stack[i].fn = "alpha_beta"
    /\ \E i \in 1..(Len(stack) - 1) : stack[i].fn = "quiescence_search"

\* C10: when a position has a legal move, generate_candidates returns at
\* least one candidate
CandidatesNonEmpty ==
    pc = "candidates" => (LegalMovesOf(board) # {} => cands # <<>>)

\* C12: a tt_probe for a hash that no tt_store was given since initialize()
\* reports a miss
ProbeMissesUnstored ==
    pc = "probed" /\ probeOut.hash \notin stored => ~probeOut.hit

ProbeAfterStore ==
    pc = "probed" /\ probeOut.afterStore /\ probeOut.hash = lastStore.hash

\* C13: a tt_probe right after a tt_store of the same hash hits with the stored
\* score and move when it asks for at most the stored depth, and misses when
\* it asks for more
StoreThenProbe ==
    ProbeAfterStore =>
        IF probeOut.depth <= lastStore.depth
        THEN /\ probeOut.hit
             /\ probeOut.score = lastStore.score
             /\ probeOut.move = lastStore.move
        ELSE ~probeOut.hit

StoreThenProbeWitness ==
    /\ ProbeAfterStore
    /\ probeOut.depth = lastStore.depth
    /\ probeOut.hit /\ probeOut.score = 7 /\ probeOut.move = 513

\* C11: once should_stop() has answered true during a search, no tt_store and
\* no killer or history update is made before search() returns
NoWriteAfterStop == writesAfterStop = 0

Occupied(b) == Cardinality(all_pieces(b))

\* C14: every recursive call of quiescence_search is made on a position with
\* strictly fewer occupied squares than its caller's position, which bounds
\* the depth of the recursion by the number of pieces
QuiescenceShrinks ==
    \A i \in 1..(Len(stack) - 1) :
        stack[i].fn = "quiescence_search" =>
            /\ stack[i + 1].fn = "quiescence_search"
            /\ Occupied(stack[i + 1].board) < Occupied(stack[i].board)

\* a capture of quiescence_search answered by a capture
QuiescenceShrinksWitness ==
    \E i \in 1..(Len(stack) - 2) :
        /\ stack[i].fn = "quiescence_search"
        /\ stack[i + 1].fn = "quiescence_search"
        /\ Occupied(stack[i + 2].board) = Occupied(stack[i].board) - 2

\* the move is a legal move of a white pawn or knight of b onto an empty square
QuietPawnOrKnightMove(b, move) ==
    /\ move \in LegalMovesOf(b)
    /\ piece_at(b, move \div 64) \in {PAWN, KNIGHT}
    /\ color_at(b, move \div 64) = WHITE
    /\ piece_at(b, move % 64) = NO_PIECE

\* C15: from the standard starting position, search with max depth 1 returns
\* a legal move of a white pawn or a white knight that captures nothing
OpeningMove ==
    pc = "idle" /\ fen = StartPosition /\ go.max_search_depth = 1 =>
        \A i \in 1..Len(returned) : QuietPawnOrKnightMove(board, returned[i].best_move)

\* two depth-1 searches have returned, one of them a knight move
OpeningMoveWitness ==
    /\ pc = "idle" /\ fen = StartPosition /\ Len(returned) = 2
    /\ \E i \in 1..Len(returned) :
           /\ returned[i].depth = 1 /\ returned[i].nodes > 20
           /\ piece_at(board, returned[i].best_move \div 64) = KNIGHT

\* the positions that differ from b in one castling right, in the en-passant
\* target, or in the colour of the piece on one square
CastlingVariants(b) == {[b EXCEPT !.castling[c][s] = ~@] : c \in WHITE..BLACK, s \in 0..1}

EnPassantVariants(b) == {[b EXCEPT !.en_passant_square = e] : e \in ({-1} \cup 16..23 \cup 40..47) \ {b.en_passant_square}}

OtherColour(b, sq) == [b EXCEPT !.colors = [c \in WHITE..BLACK |-> IF sq \in b.colors[c] THEN b.colors[c] \ {sq} ELSE b.colors[c] \cup {sq}]]

ColourVariants(b) == {OtherColour(b, sq) : sq \in all_pieces(b)}

\* C16: a loaded position and a position that differs from it only in one
\* castling right, only in the en-passant target, or only in the colour of the
\* piece on one square have different hashes, and no two different (piece type,
\* square) placements are xor-ed into the hash as the same value
HashDistinguishes ==
    pc = "loaded" =>
        /\ \A v \in CastlingVariants(board) \cup EnPassantVariants(board) \cup ColourVariants(board) :
               compute_hash(v).hash # compute_hash(board).hash
        /\ \A p1, p2 \in PAWN..KING, s1, s2 \in Squares :
               <<p1, s1>> # <<p2, s2>> => HashTerm(s1, p1) # HashTerm(s2, p2)

\* the move just made in the move scenario, and who made it
Moved == pc = "moved" /\ ply >= 1

MoveFrom == lastMove \div 64

MoveTo == lastMove % 64

Mover == prevBoard.side_to_move

\* the side to move had a piece of type pt on the square the move left
MoveOf(pt) == MoveFrom \in prevBoard.pieces[pt] \cap prevBoard.colors[Mover]

\* the corner a rook of color c starts on, on side s (0 kingside, 1 queenside)
RookCorner(c, s) == (IF c = WHITE THEN 0 ELSE 56) + (IF s = 0 THEN 7 ELSE 0)

\* C17: over make_move a castling right that is false stays false, a king move
\* clears both rights of the side that moved, and a rook move from its
\* original corner clears the right of that corner
CastlingNonIncreasing ==
    Moved =>
        /\ \A c \in WHITE..BLACK, s \in 0..1 : ~prevBoard.castling[c][s] => ~board.castling[c][s]
        /\ MoveOf(KING) => \A s \in 0..1 : ~board.castling[Mover][s]
        /\ \A s \in 0..1 : MoveOf(ROOK) /\ MoveFrom = RookCorner(Mover, s) => ~board.castling[Mover][s]

\* the move advanced a pawn of the side to move by two squares
TwoSquareAdvance == MoveOf(PAWN) /\ MoveTo = MoveFrom + 2 * PAWN_MOVE(Mover)

\* C18: after make_move the en-passant target is the square the pawn skipped
\* if the move was a two-square pawn advance, and -1 after every other move
EnPassantOnlyAfterAdvance ==
    Moved => board.en_passant_square = IF TwoSquareAdvance THEN (MoveFrom + MoveTo) \div 2 ELSE -1

\* the move took a piece: its destination was occupied, or it is a pawn's
\* move onto the en-passant target
IsCapture == MoveTo \in all_pieces(prevBoard) \/ (MoveOf(PAWN) /\ MoveTo = prevBoard.en_passant_square)

\* C19: after make_move the full-move number is one more when Black moved and
\* the same when White moved, and the half-move clock is one more unless the
\* move was a pawn move or a capture
CountersAdvance ==
    Moved =>
        /\ board.fullmove_number = prevBoard.fullmove_number + (IF Mover = BLACK THEN 1 ELSE 0)
        /\ ~(MoveOf(PAWN) \/ IsCapture) => board.halfmove_clock = prevBoard.halfmove_clock + 1

\* C20: make_move on a generated move of a position reached by generated
\* moves returns a position with the other side to move
SideToMoveFlips == Moved => board.side_to_move = 1 - prevBoard.side_to_move

-----------------------------------------------------------------------------
(* the candidate filter, the table's replacement policy, move ordering, the *)
(* history and killer tables, and the attack patterns                       *)

\* what the move is on b for the side to move: a capture, a check of the
\* opponent's king, a king move, a pawn advance
CapturesPiece(b, move) ==
    \/ move % 64 \in pieces_of_color(b, 1 - b.side_to_move)
    \/ piece_at(b, move \div 64) = PAWN /\ move % 64 = b.en_passant_square

GivesCheck(b, move) == is_in_check(AfterMove(b, move), 1 - b.side_to_move)

KingMove(b, move) == piece_at(b, move \div 64) = KING

PawnAdvance(b, move) ==
    /\ piece_at(b, move \div 64) = PAWN
    /\ (move % 64) - (move \div 64) \in {PAWN_MOVE(b.side_to_move), 2 * PAWN_MOVE(b.side_to_move)}

MustKeep(b, move) ==
    /\ LeavesKingSafe(b, move)
    /\ CapturesPiece(b, move) \/ GivesCheck(b, move) \/ KingMove(b, move) \/ PawnAdvance(b, move)

\* C21: generate_candidates keeps every generated move that leaves the mover's
\* own king unattacked and is a capture, a check, a king move or a pawn advance
CandidatesKeepForcing ==
    pc = "candidates" =>
        \A move \in SeqToSet(generate_moves(board)) : MustKeep(board, move) => move \in SeqToSet(cands)

\* the slots the table scenario can tell apart from an untouched one
TouchedSlots == {tt_index(h) : h \in TableHashes} \cup DOMAIN transposition_table

\* C22: tt_store replaces whatever its slot held: once h2 is stored in a slot
\* that held another hash h1 of that slot, tt_probe misses h1 at every depth and answers h2
\* with the new entry, and every other slot is as it was
StoreReplaces ==
    [][pc' = "stored" =>
         LET h2 == lastStore'.hash
             h1 == lastStore'.replaced
         IN  /\ h1 # h2 /\ tt_index(h1) = tt_index(h2) => \A d \in 0..(MaxTableDepth + 1) : ~tt_probe(transposition_table', h1, d, 0, 0).hit
             /\ tt_probe(transposition_table', h2, lastStore'.depth, 0, 0) = [hit |-> TRUE, score |-> lastStore'.score, move |-> lastStore'.move]
             /\ EntryAt(transposition_table', tt_index(h2)).flag = lastStore'.flag
             /\ \A idx \in TouchedSlots \ {tt_index(h2)} : EntryAt(transposition_table', idx) = EntryAt(transposition_table, idx)]_vars

\* a deeper entry of another hash was replaced by a shallower one
StoreReplacesWitness ==
    /\ pc = "probed" /\ probeOut.afterStore /\ lastStore.done
    /\ lastStore.replaced # lastStore.hash /\ lastStore.replaced # HashZero
    /\ probeOut.hash = lastStore.replaced /\ ~probeOut.hit
    /\ lastStore.replaced \in stored /\ lastStore.depth = 0 /\ probeOut.depth = 0

\* alpha_beta has just ordered the moves of the innermost call: the tables
\* are the ones order_moves read
JustOrdered == pc = "call" /\ stack # <<>> /\ Top.fn = "alpha_beta" /\ Top.phase = "loop" /\ Top.idx = 1

\* the tt_move order_moves was given, and the score it gave to a move
OrderedTtMove == ProbeAt(Top).move

OrderScore(move) == score_move_for_order(Top.board, move, OrderedTtMove, Top.depth, killer_moves, history_scores)

\* C23: when the transposition move is in the list order_moves sorts, it comes
\* first: every other move of the list scores strictly below its 100000
TtMoveFirst ==
    JustOrdered /\ OrderedTtMove \in SeqToSet(Top.moves) =>
        /\ Top.moves[1] = OrderedTtMove
        /\ \A move \in SeqToSet(Top.moves) \ {OrderedTtMove} : OrderScore(move) < 100000

\* the moves order_moves sorted, the transposition move left out
OrderedOthers == SeqToSet(Top.moves) \ {OrderedTtMove}

IndexIn(moves, move) == Min({i \in 1..Len(moves) : moves[i] = move})

TakesPiece(move) == piece_at(Top.board, move % 64) # NO_PIECE

\* C24: among the moves that are not the transposition move, order_moves
\* scores every capture above every non-capture and sorts it in front of it
CapturesBeforeQuiet ==
    JustOrdered =>
        \A a, b \in OrderedOthers :
            TakesPiece(a) /\ ~TakesPiece(b) =>
                /\ OrderScore(a) > OrderScore(b)
                /\ IndexIn(Top.moves, a) < IndexIn(Top.moves, b)

\* the ceiling update_history compares an entry with
HistoryCeiling == 10000

\* C25: after any sequence of update_history calls with bonus depth * depth,
\* 1 <= depth <= 63, every entry of history_scores is within 0..HistoryCeiling
HistoryWithinCeiling ==
    \A k \in DOMAIN history_scores : history_scores[k] >= 0 /\ history_scores[k] <= HistoryCeiling

\* the third call with depth 63 for a1b1 took its entry to 11907 and the table
\* was halved, the entry of a1a2 with it
HistoryWithinCeilingWitness ==
    /\ pc = "history" /\ updates = 4
    /\ HistoryAt(history_scores, 0, 1) = 5953
    /\ HistoryAt(history_scores, 0, 8) = 1012

\* the squares of the board a given number of files and ranks away from sq
FileDistance(a, b) == Abs(file_of(a) - file_of(b))

RankDistance(a, b) == Abs(rank_of(a) - rank_of(b))

\* C26: every pawn capture generate_moves produces goes one rank forward to
\* an adjacent file, and the captures of a pawn go to exactly the squares of
\* pawn_attacks that hold an enemy piece or are the en-passant target
PawnCapturesAdjacent ==
    pc = "moved" =>
        \A sq \in board.pieces[PAWN] \cap board.colors[board.side_to_move] :
            LET stm == board.side_to_move
                targets == {move % 64 : move \in {m \in SeqToSet(PawnMovesFrom(board, sq)) : (m % 64) - sq \notin {PAWN_MOVE(stm), 2 * PAWN_MOVE(stm)}}}
                wanted == {t \in pawn_attacks(sq, stm) : t \in pieces_of_color(board, 1 - stm) \/ t = board.en_passant_square}
            IN  /\ \A t \in targets : FileDistance(sq, t) = 1 /\ rank_of(t) - rank_of(sq) = PAWN_MOVE(stm) \div 8
                /\ targets = wanted

\* C27: knight_attacks(s) is the set of squares one file and two ranks, or two
\* files and one rank, away from s
KnightAttacksExact ==
    pc = "knight" =>
        attackOut = {t \in Squares : <<FileDistance(attackSq, t), RankDistance(attackSq, t)>> \in {<<1, 2>>, <<2, 1>>}}

\* C28: king_attacks(s) without s is the set of the other squares at most one
\* file and at most one rank away from s
KingAttacksExact ==
    pc = "king" =>
        attackOut \ {attackSq} = {t \in Squares \ {attackSq} : FileDistance(attackSq, t) <= 1 /\ RankDistance(attackSq, t) <= 1}

\* the moves generate_moves gives for the root, the Board that search() has set
\* from the description
RootMoves == SeqToSet(generate_moves(board))

\* the move in the slot of the table that belongs to the root's hash
RootSlotMove == EntryAt(transposition_table, tt_index(board.hash)).move

\* the best moves other than 0 that the searches of the position have returned
ReturnedMoves == {returned[i].best_move : i \in 1..Len(returned)} \ {0}

\* C30: a best move other than 0 that search() returned is one of the moves
\* generate_moves gives for the root position, whatever the table holds: entries
\* of other positions in the root's slot, entries that earlier searches left
\* (search() returns into the state "idle", where the results are looked at)
BestMoveGenerated == pc = "idle" /\ returned # <<>> => ReturnedMoves \subseteq RootMoves

\* the search of RookCheck has found in its slot the rook move that the search
\* of WhiteRook left there, and has returned the first generated move instead
BestMoveGeneratedWitness == pc = "idle" /\ fen = RookCheck /\ Len(returned) = 1 /\ go.max_search_depth >= 1 /\ RootSlotMove \notin RootMoves \cup {0} /\ returned[1].best_move = generate_moves(board)[1]

\* the depths of the alpha_beta calls under way that have ordered two moves or
\* more: each has read killer_moves[depth] in score_move_for_order, and writes
\* killer_moves[depth] if one of its moves cuts off
KillerIndexes == {stack[i].depth : i \in {j \in 1..Len(stack) : stack[j].fn = "alpha_beta" /\ stack[j].phase = "loop" /\ Len(stack[j].moves) > 1}}

\* C29: whatever depth search() is called with, killer_moves is read and
\* written at indexes 0..63 only
KillerIndexInRange == KillerIndexes \subseteq 0..(KillerDepths - 1)
=============================================================================
